---- MODULE Spec2Model ----
(***************************************************************************)
(* The extract / transform / load pipeline of the Ukraine Support Tracker  *)
(* (Code/DataPipeline/ETL.py) over a DuckDB store.                         *)
(*                                                                         *)
(* Representation.  A string is a tuple of one-character strings, so that  *)
(* lower-casing, whitespace collapsing and stripping are computed and not  *)
(* assumed.  A cell is a tuple <<tag, payload...>> with tag one of "null", *)
(* "str", "int", "float", "date", "bool".  A DataFrame / table is a record *)
(* [columns, rows].  The store is two name spaces of one DuckDB            *)
(* connection: tables (schema main, persistent) and views (schema temp,    *)
(* what Connection.register creates; resolved before main).                *)
(***************************************************************************)
EXTENDS Integers, Sequences, FiniteSets, TLC

\* ------------------------------------------------------------------ bounds
\* Longest pipeline configuration (number of sheet specs) that is explored.
MaxSheets == 2
\* How many times run() is executed against the same store.
MaxRuns == 2
\* Longest transform configuration (number of keys) whose orders are explored.
MaxKeys == 3
\* Number of countries of the universe the taxonomies draw from.
MaxCountries == 3

\* ----------------------------------------------------------- sequences
Range(s) == {s[i] : i \in 1..Len(s)}

RECURSIVE Concat(_)
Concat(ss) == IF ss = <<>> THEN <<>> ELSE Head(ss) \o Concat(Tail(ss))

IndexOf(s, x) == IF x \in Range(s) THEN CHOOSE i \in 1..Len(s) : s[i] = x ELSE 0

IsPrefix(s, t) == Len(s) <= Len(t) /\ SubSeq(t, 1, Len(s)) = s

\* --------------------------------------------------------------- strings
\* str.lower()
Lower(c) ==
    CASE c = "A" -> "a" [] c = "T" -> "t" [] c = "V" -> "v" [] c = "Y" -> "y"
      [] OTHER -> c

IsSpace(c) == c = " "

\* the character class [a-z0-9_]
IsWordChar(c) == c \in {"a", "b", "m", "r", "t", "v", "y", "1", "2", "_"}

str_lower(s) == [i \in 1..Len(s) |-> Lower(s[i])]

\* re.sub(r"\s+", rep, s): every maximal run of whitespace becomes rep
RECURSIVE sub_whitespace(_, _)
sub_whitespace(s, rep) ==
    IF s = <<>> THEN <<>>
    ELSE IF IsSpace(Head(s))
         THEN IF Len(s) > 1 /\ IsSpace(s[2])
              THEN sub_whitespace(Tail(s), rep)
              ELSE <<rep>> \o sub_whitespace(Tail(s), rep)
         ELSE <<Head(s)>> \o sub_whitespace(Tail(s), rep)

\* re.sub(r"[^a-z0-9_]", "", s)
RECURSIVE drop_non_word(_)
drop_non_word(s) ==
    IF s = <<>> THEN <<>>
    ELSE IF IsWordChar(Head(s)) THEN <<Head(s)>> \o drop_non_word(Tail(s))
         ELSE drop_non_word(Tail(s))

RECURSIVE lstrip(_, _)
lstrip(s, c) == IF s # <<>> /\ Head(s) = c THEN lstrip(Tail(s), c) ELSE s

RECURSIVE rstrip(_, _)
rstrip(s, c) ==
    IF s # <<>> /\ s[Len(s)] = c THEN rstrip(SubSeq(s, 1, Len(s) - 1), c) ELSE s

\* str.strip(c)
str_strip(s, c) == rstrip(lstrip(s, c), c)

\* " ".join(parts)
RECURSIVE str_join(_)
str_join(parts) ==
    IF parts = <<>> THEN <<>>
    ELSE IF Len(parts) = 1 THEN parts[1]
         ELSE parts[1] \o <<" ">> \o str_join(Tail(parts))

\* ----------------------------------------------------------------- cells
Null == <<"null">>
Str(s) == <<"str">> \o s
IsNull(c) == c[1] = "null"
Payload(c) == SubSeq(c, 2, Len(c))

\* python float(x) / Series.astype(float) of one cell; <<"raise">> when the
\* value has no float reading (ValueError)
ToFloat(c) ==
    CASE c[1] = "null" -> Null
      [] c[1] = "float" -> c
      [] c[1] = "int" /\ c[2] = "0" -> <<"float", "0.0">>
      [] c[1] = "int" /\ c[2] = "1" -> <<"float", "1.0">>
      [] c[1] = "int" /\ c[2] = "2" -> <<"float", "2.0">>
      [] OTHER -> <<"raise">>

\* Series.astype(str) of one cell: NaN becomes the string "nan"
ToStr(c) ==
    CASE c[1] = "null" -> <<"str", "nan">>
      [] OTHER -> Str(Payload(c))

\* pd.to_datetime(x, format="%Y-%m") of one cell: strict, a value that does not
\* match the format raises; a missing value becomes NaT
ToDatetime(c) ==
    CASE c[1] = "null" -> Null
      [] c[1] = "date" -> c
      [] c[1] = "str" /\ c[2] \in {"2022-01", "2022-02"} -> <<"date", c[2]>>
      [] OTHER -> <<"raise">>

\* ---------------------------------------------------------------- tables
DataFrame(cols, rows) == [columns |-> cols, rows |-> rows]

ColIndex(df, name) == IndexOf(df.columns, name)

HasColumn(df, name) == name \in Range(df.columns)

Column(df, name) == [r \in 1..Len(df.rows) |-> df.rows[r][ColIndex(df, name)]]

\* data[name] = values
SetColumn(df, name, values) ==
    [df EXCEPT !.rows =
        [r \in 1..Len(df.rows) |->
            [df.rows[r] EXCEPT ![ColIndex(df, name)] = values[r]]]]

\* what an operator hands back: the frame, or the exception it raised
Ok(df) == [ok |-> TRUE, data |-> df, err |-> "none"]
Raise(df, e) == [ok |-> FALSE, data |-> df, err |-> e]

\* --------------------------------------------------- transform configuration
\* The keys of a sheet's transform section, and the value each has when the
\* key is absent (the dataclass defaults).
TransformKeys ==
    {"clean_column_names", "columnnames", "datetime", "datatypes", "reshape",
     "replace_values", "forward_fill_column", "entry_correction", "add_columns"}

DefaultOf(key) ==
    IF key \in {"clean_column_names", "entry_correction"} THEN "False" ELSE "None"

\* TransformationConfig(**config): config is the YAML mapping as an ordered
\* sequence of <<key, value>> pairs; the dataclass keeps one field per key and
\* forgets the order the keys were written in.
TransformationConfig(config) ==
    [key \in TransformKeys |->
        IF \E i \in 1..Len(config) : config[i][1] = key
        THEN config[CHOOSE i \in 1..Len(config) : config[i][1] = key][2]
        ELSE DefaultOf(key)]

\* python truthiness of a configured value (None, False, {} are false)
Truthy(value) == value \notin {"None", "False", "empty"}

\* Column names of the workbook's sheets and of the configurations.
NameTy == <<"T", "y">>
NameAb == <<"A", " ", "b">>
NameYr == <<"Y", "r">>
NameV == <<"V", "%">>
NameAmt == <<"a", "m", "t">>
NameVar == <<"v", "a", "r">>
NameVal == <<"v", "a", "l">>

\* The configured values, by the name the configurations below give them.
\* replace_values: {column: {old: new}}
ReplaceColumns(value) == IF value = "r_dot" THEN <<NameAb>> ELSE <<>>
ReplaceDictGet(value, column, x) ==
    IF value = "r_dot" /\ column = NameAb /\ x = Str(<<".">>)
    THEN <<"int", "0">> ELSE x
\* forward_fill_column: a column name
FillColumn(value) == IF value = "ff_ty" THEN NameTy ELSE NameV
\* datatypes: {column: dtype}
DatatypeColumns(value) ==
    CASE value = "dt_float" -> <<NameV>>
      [] value = "dt_str" -> <<NameAb>>
      [] value = "dt_bad" -> <<NameTy>>
      [] OTHER -> <<>>
DatatypeOf(value, column) == IF value = "dt_str" THEN "str" ELSE "float"
\* datetime: {column: format}
DatetimeColumns(value) == IF value = "ym" THEN <<NameYr>> ELSE <<>>
\* columnnames: {old: new}
RenameGet(value, col) == IF value = "rn_amt" /\ col = NameAb THEN NameAmt ELSE col
\* reshape: {type, id_vars, value_vars, var_name, value_name}
ReshapeSpec(value) ==
    CASE value = "melt_raw" ->
           [type |-> "melt", id_vars |-> <<NameTy>>, value_vars |-> <<NameAb, NameV>>,
            var_name |-> NameVar, value_name |-> NameVal]
      [] value = "melt_ab" ->
           [type |-> "melt", id_vars |-> <<NameTy>>, value_vars |-> <<NameAb>>,
            var_name |-> NameVar, value_name |-> NameVal]
      [] value = "melt_clean" ->
           [type |-> "melt", id_vars |-> <<<<"t", "y">>>>,
            value_vars |-> <<<<"a", "_", "b">>, <<"v">>>>,
            var_name |-> NameVar, value_name |-> NameVal]
      [] OTHER ->
           [type |-> "pivot", id_vars |-> <<>>, value_vars |-> <<>>,
            var_name |-> NameVar, value_name |-> NameVal]
\* add_columns: {column: {join_query: sql}}, the queries in mapping order
JoinQueries(value) ==
    CASE value = "q_count" -> <<"count">>
      [] value = "q_bad" -> <<"bad">>
      [] value = "q_two" -> <<"count", "flag">>
      [] value = "q_ok_bad" -> <<"flag", "bad">>
      [] OTHER -> <<>>

\* ------------------------------------------------------ transform operators
\* data[column] = F(data[column]) for one column: KeyError when the column is
\* missing, err when a value cannot be converted.
MapColumn(df, column, F(_), err) ==
    IF ~HasColumn(df, column) THEN Raise(df, "KeyError")
    ELSE LET old == Column(df, column)
             new == [r \in 1..Len(old) |-> F(old[r])]
         IN  IF \E r \in 1..Len(new) : new[r] = <<"raise">>
             THEN Raise(df, err)
             ELSE Ok(SetColumn(df, column, new))

\* for column in columns: data[column] = F(column, data[column]); stops at the
\* first column that raises
RECURSIVE MapColumns(_, _, _, _)
MapColumns(df, columns, F(_, _), err) ==
    IF columns = <<>> THEN Ok(df)
    ELSE LET c == Head(columns)
             G(x) == F(c, x)
             one == MapColumn(df, c, G, err)
         IN  IF one.ok THEN MapColumns(one.data, Tail(columns), F, err) ELSE one

apply_value_replacements(data, config) ==
    IF Truthy(config["replace_values"])
    THEN LET F(column, x) ==
                 ToFloat(ReplaceDictGet(config["replace_values"], column, x))
         IN  MapColumns(data, ReplaceColumns(config["replace_values"]), F,
                        "ValueError")
    ELSE Ok(data)

\* As ffill, but a missing value takes the first value seen before it.
RECURSIVE ffill_first_seen(_, _)
ffill_first_seen(values, last) ==
    IF values = <<>> THEN <<>>
    ELSE IF IsNull(Head(values))
         THEN <<last>> \o ffill_first_seen(Tail(values), last)
         ELSE <<Head(values)>>
              \o ffill_first_seen(Tail(values), IF IsNull(last) THEN Head(values) ELSE last)

\* Series.ffill(): a missing value takes the last value seen before it
RECURSIVE ffill(_, _)
ffill(values, last) ==
    IF values = <<>> THEN <<>>
    ELSE IF IsNull(Head(values))
         THEN <<last>> \o ffill(Tail(values), last)
         ELSE <<Head(values)>> \o ffill(Tail(values), Head(values))

apply_forward_fill(data, config) ==
    IF Truthy(config["forward_fill_column"])
    THEN LET column == FillColumn(config["forward_fill_column"])
         IN  IF ~HasColumn(data, column) THEN Raise(data, "KeyError")
             ELSE Ok(SetColumn(data, column, ffill(Column(data, column), Null)))
    ELSE Ok(data)

GermanAid == <<"str", "German aid to Ukraine">>

apply_entry_corrections(data, config) ==
    IF Truthy(config["entry_correction"])
    THEN IF Len(data.columns) < 4 THEN Raise(data, "IndexError")
         ELSE Ok([data EXCEPT !.rows =
                    [r \in 1..Len(data.rows) |->
                        IF data.rows[r][1] = GermanAid
                        THEN [data.rows[r] EXCEPT ![4] = <<"float", "18.08">>]
                        ELSE data.rows[r]]])
    ELSE Ok(data)

apply_datatypes(data, config) ==
    IF Truthy(config["datatypes"])
    THEN LET F(column, x) ==
                 IF DatatypeOf(config["datatypes"], column) = "float"
                 THEN ToFloat(x) ELSE ToStr(x)
         IN  MapColumns(data, DatatypeColumns(config["datatypes"]), F, "ValueError")
    ELSE Ok(data)

apply_datetime_conversion(data, config) ==
    IF Truthy(config["datetime"])
    THEN LET F(column, x) == ToDatetime(x)
         IN  MapColumns(data, DatetimeColumns(config["datetime"]), F, "ValueError")
    ELSE Ok(data)

apply_column_renames(data, config) ==
    IF Truthy(config["columnnames"])
    THEN Ok([data EXCEPT !.columns =
                [i \in 1..Len(data.columns) |->
                    RenameGet(config["columnnames"], data.columns[i])]])
    ELSE Ok(data)

\* lower-case, whitespace runs to "_", drop what is not [a-z0-9_], strip "_"
clean_name(name) ==
    str_strip(drop_non_word(sub_whitespace(str_lower(name), "_")), "_")

\* As clean_column_names, but the flag is not looked at.
clean_column_names_always(data, config) ==
    Ok([data EXCEPT !.columns =
           [i \in 1..Len(data.columns) |-> clean_name(data.columns[i])]])

clean_column_names(data, config) ==
    IF Truthy(config["clean_column_names"])
    THEN Ok([data EXCEPT !.columns =
                [i \in 1..Len(data.columns) |-> clean_name(data.columns[i])]])
    ELSE Ok(data)

\* As melt, but the rows whose value is missing are left out.
melt_dropna(data, spec) ==
    LET ids == [k \in 1..Len(spec.id_vars) |-> ColIndex(data, spec.id_vars[k])]
        block(v) ==
            [r \in 1..Len(data.rows) |->
                [k \in 1..Len(ids) |-> data.rows[r][ids[k]]]
                \o <<Str(v), data.rows[r][ColIndex(data, v)]>>]
        HasValue(row) == ~IsNull(row[Len(row)])
    IN  DataFrame(spec.id_vars \o <<spec.var_name, spec.value_name>>,
                  SelectSeq(Concat([j \in 1..Len(spec.value_vars) |->
                                       block(spec.value_vars[j])]),
                            HasValue))

\* pd.melt: one output row per (value column, input row), value columns outermost
melt(data, spec) ==
    LET ids == [k \in 1..Len(spec.id_vars) |-> ColIndex(data, spec.id_vars[k])]
        block(v) ==
            [r \in 1..Len(data.rows) |->
                [k \in 1..Len(ids) |-> data.rows[r][ids[k]]]
                \o <<Str(v), data.rows[r][ColIndex(data, v)]>>]
    IN  DataFrame(spec.id_vars \o <<spec.var_name, spec.value_name>>,
                  Concat([j \in 1..Len(spec.value_vars) |-> block(spec.value_vars[j])]))

reshape_data(data, config) ==
    IF Truthy(config["reshape"]) /\ ReshapeSpec(config["reshape"]).type = "melt"
    THEN LET spec == ReshapeSpec(config["reshape"])
         IN  IF \E v \in Range(spec.id_vars) \cup Range(spec.value_vars) :
                    ~HasColumn(data, v)
             THEN Raise(data, "KeyError")
             ELSE Ok(melt(data, spec))
    ELSE Ok(data)

\* ------------------------------------------------------------------ store
\* A name space is a function whose domain is the set of names that exist.
Put(space, name, df) ==
    [n \in DOMAIN space \cup {name} |-> IF n = name THEN df ELSE space[n]]

Drop(space, name) == [n \in DOMAIN space \ {name} |-> space[n]]

EmptySpace == [n \in {} |-> DataFrame(<<>>, <<>>)]

\* Connection.register(name, df): a temporary view over the frame, replacing a
\* view registered under the name before
register(vs, name, df) == Put(vs, name, df)

\* A name in a FROM clause: the temp schema is searched before main
Queryable(vs, ts, name) == name \in DOMAIN vs \cup DOMAIN ts

Resolve(vs, ts, name) == IF name \in DOMAIN vs THEN vs[name] ELSE ts[name]

\* As create_table_as_select, but a table that exists is appended to.
create_table_as_select_append(vs, ts, name) ==
    [ok |-> TRUE,
     tables |-> Put(ts, name,
                    IF name \in DOMAIN ts
                    THEN DataFrame(ts[name].columns, ts[name].rows \o vs[name].rows)
                    ELSE vs[name]),
     err |-> "none"]

\* "CREATE TABLE name AS SELECT * FROM name": the table is created in main; the
\* statement fails, and changes nothing, when main already has the name
create_table_as_select(vs, ts, name) ==
    IF name \in DOMAIN ts
    THEN [ok |-> FALSE, tables |-> ts, err |-> "CatalogException"]
    ELSE [ok |-> TRUE, tables |-> Put(ts, name, Resolve(vs, ts, name)),
          err |-> "none"]

LookupName == "zz_country_lookup"
temp_table == "temp_transform_table"

IntStr(n) ==
    CASE n = 0 -> "0" [] n = 1 -> "1" [] n = 2 -> "2" [] n = 3 -> "3"
      [] n = 4 -> "4" [] n = 5 -> "5" [] OTHER -> "many"

AddColumn(df, name, F(_)) ==
    DataFrame(Append(df.columns, name),
              [r \in 1..Len(df.rows) |-> Append(df.rows[r], F(df.rows[r]))])

\* Connection.execute(join_query).fetchdf() for the queries of the
\* configurations: "count" selects the alias's columns and the number of rows of
\* the country lookup table, "flag" selects the alias's columns and a constant,
\* "bad" names a table that does not exist.
execute_query(query, vs, ts) ==
    LET CountCell(row) == <<"int", IntStr(Len(Resolve(vs, ts, LookupName).rows))>>
        FlagCell(row) == <<"int", "1">>
    IN  CASE query = "count" /\ Queryable(vs, ts, temp_table)
                             /\ Queryable(vs, ts, LookupName) ->
               Ok(AddColumn(Resolve(vs, ts, temp_table), <<"n">>, CountCell))
          [] query = "flag" /\ Queryable(vs, ts, temp_table) ->
               Ok(AddColumn(Resolve(vs, ts, temp_table), <<"f">>, FlagCell))
          [] OTHER -> Raise(DataFrame(<<>>, <<>>), "CatalogException")

\* ---------------------------------------------------------- country lookup
\* Country names in alphabetical order.
CountryUniverse == <<"Austria", "Belgium", "Norway", "Ukraine", "Zambia">>
Countries == {CountryUniverse[i] : i \in 1..MaxCountries}

\* sorted(set(names))
Sorted_descending(names) ==
    LET up == SelectSeq(CountryUniverse, LAMBDA c : c \in names)
    IN  [i \in 1..Len(up) |-> up[Len(up) + 1 - i]]

Sorted(names) == SelectSeq(CountryUniverse, LAMBDA c : c \in names)

Bool(b) == IF b THEN <<"bool", "True">> ELSE <<"bool", "False">>

\* lookup_df["geographic_europe"] = isin(Geographic_Europe) | lookup_df["EU_member"]
geographic_europe_listed_only(taxonomy, country, eu_member) ==
    country \in taxonomy.members["Geographic_Europe"]

geographic_europe(taxonomy, country, eu_member) ==
    country \in taxonomy.members["Geographic_Europe"] \/ eu_member

\* A taxonomy is [cats, members, codes]: the category names other than
\* country_codes in file order, each category's countries, and the
\* country_codes mapping.
create_country_lookup(taxonomy) ==
    LET category_lists == taxonomy.cats
        all_countries ==
            Sorted(UNION {taxonomy.members[k] : k \in Range(category_lists)})
        plain == SelectSeq(category_lists,
                           LAMBDA k : k \notin {"Geographic_Europe", "EU_Member"})
        isin(country, k) == country \in taxonomy.members[k]
        EU_member(country) == isin(country, "EU_Member")
        Row(i) ==
            LET country == all_countries[i]
            IN  <<<<"int", IntStr(i)>>, <<"str", country>>,
                  IF country \in DOMAIN taxonomy.codes
                  THEN <<"str", taxonomy.codes[country]>> ELSE Null>>
                \o [j \in 1..Len(plain) |-> Bool(isin(country, plain[j]))]
                \o <<Bool(EU_member(country)),
                      Bool(geographic_europe(taxonomy, country, EU_member(country)))>>
    IN  IF {"EU_Member", "Geographic_Europe"} \subseteq Range(category_lists)
        THEN Ok(DataFrame(
                 <<<<"country_id">>, <<"country_name">>, <<"iso3_code">>>>
                 \o [j \in 1..Len(plain) |-> <<plain[j]>>]
                 \o <<<<"EU_member">>, <<"geographic_europe">>>>,
                 [i \in 1..Len(all_countries) |-> Row(i)]))
        ELSE Raise(DataFrame(<<>>, <<>>), "KeyError")

\* -------------------------------------------------------------- extraction
\* The workbook: each sheet's raw cell grid, header rows included.
Workbook ==
    [name \in {"Aid", "Notes", "Empty"} |->
        CASE name = "Aid" ->
               <<<<Str(NameTy), Str(NameAb), Str(NameYr), Str(NameV)>>,
                 <<GermanAid, Str(<<".">>), <<"str", "2022-01">>, <<"int", "1">>>>,
                 <<Null, <<"int", "2">>, <<"str", "2022-02">>, Null>>>>
          [] name = "Notes" ->
               <<<<Str(<<"T", "y">>), Null>>,
                 <<Null, Str(<<"a", " ", " ", "b">>)>>,
                 <<<<"str", "x">>, <<"int", "1">>>>>>
          [] OTHER ->
               <<<<Str(NameTy), Str(NameV)>>>>]

\* ExtractionConfig(**config); number_header_rows defaults to 1 in the dataclass
ExtractionConfig(name, first_col, last_col, number_rows, skip_rows, header_rows) ==
    [name |-> name, column_range |-> <<first_col, last_col>>,
     number_rows |-> number_rows, skip_rows |-> skip_rows,
     number_header_rows |-> header_rows]

\* pd.read_excel(sheet_name, usecols, nrows, skiprows, header=None)
read_excel(ec) ==
    LET grid == Workbook[ec.name]
        first == ec.skip_rows + 1
        last == IF ec.skip_rows + ec.number_rows < Len(grid)
                THEN ec.skip_rows + ec.number_rows ELSE Len(grid)
    IN  [r \in 1..(IF last >= first THEN last - first + 1 ELSE 0) |->
            SubSeq(grid[first + r - 1], ec.column_range[1], ec.column_range[2])]

\* .fillna("").astype(str) of a header cell
CellText(c) == IF IsNull(c) THEN <<>> ELSE Payload(c)

\* Series.str.replace(r"\s+", " ") as _extract calls it, without regex=: the
\* pattern is a regular expression where the installed pandas defaults to
\* regex=True and a literal text, which no header contains, where it defaults
\* to regex=False.
str_replace_whitespace(s, regex) == IF regex THEN sub_whitespace(s, " ") ELSE s

compose_header(cells, regex) ==
    str_replace_whitespace(
        str_strip(str_join([k \in 1..Len(cells) |-> CellText(cells[k])]), " "),
        regex)

extract(ec, regex) ==
    IF ec.name \notin DOMAIN Workbook
    THEN Raise(DataFrame(<<>>, <<>>), "ValueError")
    ELSE LET raw == read_excel(ec)
             h == ec.number_header_rows
             width == ec.column_range[2] - ec.column_range[1] + 1
         IN  IF Len(raw) < h
             THEN Raise(DataFrame(<<>>, <<>>), "KeyError")
             ELSE Ok(DataFrame(
                      [c \in 1..width |->
                          compose_header([k \in 1..h |-> raw[k][c]], regex)],
                      SubSeq(raw, h + 1, Len(raw))))

\* ----------------------------------------------------------- configurations
SheetConfig(read, ec, transform, load) ==
    [read |-> read, extract |-> ec, transform |-> transform,
     load |-> [name |-> load]]

ExAid == ExtractionConfig("Aid", 1, 4, 3, 0, 1)
ExNotes == ExtractionConfig("Notes", 1, 2, 3, 0, 2)
ExEmpty == ExtractionConfig("Empty", 1, 2, 1, 0, 1)
ExMissing == ExtractionConfig("Nope", 1, 2, 3, 0, 1)

\* The sheet specs the pipeline configurations are drawn from.  read is "True",
\* "False" or "missing" (the key is not written).
SheetSpecs ==
    { SheetConfig("True", ExAid,
                  <<<<"clean_column_names", "True">>, <<"columnnames", "rn_amt">>,
                    <<"replace_values", "r_dot">>, <<"forward_fill_column", "ff_ty">>,
                    <<"entry_correction", "True">>, <<"datatypes", "dt_float">>,
                    <<"datetime", "ym">>, <<"add_columns", "q_two">>>>, "t_a"),
      SheetConfig("True", ExAid, <<<<"reshape", "melt_raw">>>>, "t_b"),
      SheetConfig("True", ExNotes, <<>>, "t_a"),
      SheetConfig("False", ExAid, <<<<"clean_column_names", "True">>>>, "t_b"),
      SheetConfig("missing", ExMissing, <<>>, "t_a"),
      SheetConfig("True", ExMissing, <<>>, "t_b"),
      SheetConfig("True", ExAid, <<<<"datatypes", "dt_bad">>>>, "t_b"),
      SheetConfig("True", ExAid, <<<<"add_columns", "q_ok_bad">>>>, "t_a"),
      SheetConfig("True", ExEmpty, <<<<"clean_column_names", "True">>>>, "t_b") }

RECURSIVE SeqsUpTo(_, _)
SeqsUpTo(S, n) ==
    IF n = 0 THEN {<<>>}
    ELSE LET shorter == SeqsUpTo(S, n - 1)
         IN  shorter \cup {Append(q, x) : q \in shorter, x \in S}

PipelineConfigs == SeqsUpTo(SheetSpecs, MaxSheets)

\* The <<key, value>> pairs transform configurations are built from, and the
\* configurations with at most MaxKeys keys, in every order of writing them.
KeyValues ==
    {<<"clean_column_names", "True">>, <<"clean_column_names", "False">>,
     <<"columnnames", "rn_amt">>, <<"datetime", "ym">>,
     <<"datatypes", "dt_float">>, <<"datatypes", "dt_str">>,
     <<"reshape", "melt_raw">>, <<"reshape", "melt_clean">>,
     <<"replace_values", "r_dot">>, <<"forward_fill_column", "ff_ty">>,
     <<"entry_correction", "True">>, <<"entry_correction", "False">>,
     <<"add_columns", "q_count">>, <<"add_columns", "q_bad">>,
     <<"add_columns", "q_two">>}

DistinctKeys(tc) == \A i, j \in 1..Len(tc) : i # j => tc[i][1] # tc[j][1]

TransformConfigs == {tc \in SeqsUpTo(KeyValues, MaxKeys) : DistinctKeys(tc)}

\* Taxonomies: the categories, each category's countries, the ISO codes.
Taxonomy(cats, eu, geo, nato, codes) ==
    [cats |-> cats,
     members |-> [k \in Range(cats) |->
                    CASE k = "EU_Member" -> eu
                      [] k = "Geographic_Europe" -> geo
                      [] OTHER -> nato],
     codes |-> codes]

Iso3(country) ==
    CASE country = "Austria" -> "AUT" [] country = "Belgium" -> "BEL"
      [] country = "Norway" -> "NOR" [] country = "Ukraine" -> "UKR"
      [] OTHER -> "ZMB"

CategoryOrders ==
    {<<"EU_Member", "Geographic_Europe", "NATO">>,
     <<"NATO", "Geographic_Europe", "EU_Member">>,
     <<"Geographic_Europe", "NATO">>}

Taxonomies ==
    {Taxonomy(cats, eu, geo, nato, [c \in coded |-> Iso3(c)]) :
        cats \in CategoryOrders, eu \in SUBSET Countries, geo \in SUBSET Countries,
        nato \in SUBSET Countries, coded \in {Countries, {CountryUniverse[1]}}}

\* The taxonomies the runs of the pipeline are explored with.
CompleteTaxonomy ==
    Taxonomy(<<"EU_Member", "Geographic_Europe", "NATO">>, {"Austria"},
             {"Norway"}, {"Norway", "Belgium"}, [c \in {"Austria"} |-> Iso3(c)])

RunTaxonomies ==
    {CompleteTaxonomy,
     Taxonomy(<<"Geographic_Europe", "NATO">>, {}, {"Norway"}, {"Belgium"},
              [c \in {"Austria"} |-> Iso3(c)])}

\* ------------------------------------------------------------------ state
VARIABLES
    config,              \* self.config: the sheet specs, in file order
    country_categories,  \* self.country_categories: the taxonomy
    pandas_regex,        \* whether the installed pandas reads str.replace patterns as regex
    tables,              \* the store, schema main: name -> table
    views,               \* the connection's registered frames (schema temp)
    pc,                  \* where run() is: lookup, sheet, transform, query, finally, load, done
    sheet,               \* index of the sheet_config the loop of run() is at
    op,                  \* index of the transformer the loop of _transform is at
    query,               \* index of the join query the loop of _add_columns_from_sql is at
    data,                \* the frame in flight
    pending,             \* the exception in flight while the finally clause runs
    outcome,             \* running, completed, or the exception that left run()
    events,              \* history: the calls run() made, in order
    applied,             \* history: the transformers _transform invoked for this sheet
    extracted,           \* history: the frame _extract returned for this sheet
    registered,          \* history: _add_columns_from_sql registered the alias for this sheet
    failed_in,           \* history: the call whose exception left run()
    last_write,          \* history: the name and frame of the last write into the store
    at_sheet_start,      \* history: the tables when this sheet's extract began
    run_no,              \* which execution of run() this is
    after_previous,      \* history: the tables when the previous run() ended
    execution_log,       \* PipelineMonitor.execution_log: the steps recorded and the status
    scopes,              \* the track_step scopes that are open, innermost last
    raising,             \* the exception in flight around the scopes, or NoException
    mpc,                 \* where the monitored code is: body, except, finally, raised, exit
    left,                \* history: the scope the last finally clause closed
    now,                 \* time.time(), in seconds
    cache,               \* DataCache._cache: key -> entry
    lock,                \* DataCache._lock: the thread that holds it, or free
    thread,              \* each thread's call in progress, or its last call and what it returned
    calls,               \* how many calls the threads have made
    evicted,             \* history: how many entries get, and invalidate, have removed
    validation_log,      \* PipelineValidator.validation_log: the entries appended
    config_path,         \* PipelineValidator.config_path
    db_path,             \* PipelineValidator.db_path
    checked,             \* the validator's last call, what it raised and what it returned
    report,              \* the document at report.json, or NoReport
    passed               \* history: the checks that returned, in call order

inputs == <<config, country_categories, pandas_regex>>
store == <<tables, views>>
control == <<pc, sheet, op, query, pending, outcome, failed_in>>
history == <<events, applied, extracted, registered, last_write, at_sheet_start>>
runs == <<run_no, after_previous>>
pipeline == <<inputs, store, control, data, history, runs>>
monitor == <<execution_log, scopes, raising, mpc, left>>
result_cache == <<cache, lock, thread, calls, evicted>>
validator == <<validation_log, config_path, db_path, checked, report, passed>>
elsewhere == <<monitor, now, result_cache, validator>>
vars == <<pipeline, elsewhere>>

\* An exception is its class and its message; NoException is no exception.
NoException == [cls |-> "none", msg |-> ""]
NoScope == [step_data |-> <<>>, step_start |-> 0]

\* PipelineMonitor.__init__: no step recorded, no scope open.
NewMonitor ==
    /\ execution_log = [steps |-> <<>>, status |-> "running"]
    /\ scopes = <<>>
    /\ raising = NoException
    /\ mpc = "body"
    /\ left = NoScope
    /\ now = 0

\* The threads that use the module's data_cache.
Threads == {"t1", "t2"}

\* None, as a value and as an omitted ttl.
None == "None"
NoTtl == <<>>

NoOp == [name |-> "none", key |-> "", data |-> None, ttl |-> NoTtl]

\* No call of a lazy_data_loader wrapper in progress.
NoWrapper ==
    [stage |-> "none", cache_key |-> "", ttl |-> NoTtl, loading_placeholder |-> None,
     data |-> None]

NoStats == [total_entries |-> 0, expired_entries |-> 0, memory_usage_approx |-> 0]

NoResult == [kind |-> "none", value |-> None, stats |-> NoStats]

IdleThread == [pc |-> "idle", op |-> NoOp, w |-> NoWrapper, result |-> NoResult]

EmptyCache == [k \in {} |-> [data |-> None, created_at |-> 0, last_accessed |-> 0,
                             expires_at |-> 0]]

\* data_cache = DataCache(default_ttl=600): nothing cached, the lock free.
NewCache ==
    /\ cache = EmptyCache
    /\ lock = "free"
    /\ thread = [t \in Threads |-> IdleThread]
    /\ calls = 0
    /\ evicted = [get |-> 0, invalidate |-> 0]

\* What a check raised: its class and the parts of its message; NoRaise when
\* the check returned.
NoRaise == [cls |-> "none", msg |-> <<>>]

NoMetadata == [validation_timestamp |-> 0]

NoCheck == [call |-> "none", raised |-> NoRaise, value |-> NoMetadata]

NoReport ==
    [execution_timestamp |-> 0, total_validation_steps |-> 0 - 1, validation_log |-> <<>>]

\* PipelineValidator.__init__: the log is empty, nothing is saved.
NewLog ==
    /\ validation_log = <<>>
    /\ checked = NoCheck
    /\ report = NoReport
    /\ passed = <<>>

NewValidator == config_path = "config.yaml" /\ db_path = "tracker.db" /\ NewLog

\* The pipeline's run() constructs and calls neither monitor, cache nor
\* validator: the state of those components stays as constructed.
ElsewhereIdle == NewMonitor /\ NewCache /\ NewValidator

NoFrame == DataFrame(<<>>, <<>>)
NoWrite == [name |-> "none", df |-> NoFrame]

\* A table an earlier run of some pipeline left in the store.
Stale == DataFrame(<<<<"old">>>>, <<<<<<"int", "1">>>>>>)

InitialStores ==
    {EmptySpace, Put(EmptySpace, LookupName, Stale), Put(EmptySpace, "t_a", Stale)}

StartOfRun ==
    /\ pc = "lookup" /\ sheet = 1 /\ op = 1 /\ query = 1
    /\ pending = "none" /\ outcome = "running" /\ failed_in = "none"
    /\ data = NoFrame /\ events = <<>> /\ applied = <<>> /\ extracted = NoFrame
    /\ registered = FALSE /\ last_write = NoWrite

Init ==
    /\ config \in PipelineConfigs
    /\ country_categories \in RunTaxonomies
    /\ pandas_regex \in BOOLEAN
    /\ tables \in InitialStores
    /\ views = EmptySpace
    /\ StartOfRun
    /\ at_sheet_start = tables
    /\ run_no = 1
    /\ ElsewhereIdle
    /\ after_previous = EmptySpace

\* -------------------------------------------------------------------- run()
\* As flagged, but a sheet spec without the read key is processed.
flagged_unless_false(sheet_config) == sheet_config.read # "False"

\* sheet_config.get("read", False)
flagged(sheet_config) == sheet_config.read = "True"

\* As in_loop, but the loop over the sheet specs does not wait for the lookup.
in_loop_before_lookup == pc \in {"lookup", "sheet"}

\* run() is in its loop over the sheet specs, _initialize_country_lookup having
\* returned
in_loop == pc = "sheet"

\* As Propagate, but an exception of a transformer is swallowed and the sheet
\* goes on to its load.
Propagate_swallow(err, where) ==
    /\ failed_in' = where
    /\ IF where = "transform"
       THEN pc' = "load" /\ outcome' = outcome
       ELSE pc' = "done" /\ outcome' = err

\* run() has no handler: an exception raised by a call leaves run() at once.
Propagate(err, where) ==
    /\ outcome' = err
    /\ failed_in' = where
    /\ pc' = "done"

\* As transformers, but the column names are cleaned before they are renamed.
transformers_clean_first ==
    <<"REPLACE", "FORWARD_FILL", "CORRECT", "DATATYPE", "DATETIME", "CLEAN",
      "RENAME", "MELT", "ADD_COLUMNS">>

\* The order in which _transform's dict lists the transformers.
transformers ==
    <<"REPLACE", "FORWARD_FILL", "CORRECT", "DATATYPE", "DATETIME", "RENAME",
      "CLEAN", "MELT", "ADD_COLUMNS">>

transform_config == TransformationConfig(config[sheet].transform)

\* The loop of _transform moves to the next transformer, or _transform returns.
Advance ==
    /\ IF op = Len(transformers)
       THEN pc' = "load" /\ op' = op
       ELSE pc' = "transform" /\ op' = op + 1
    /\ UNCHANGED <<outcome, failed_in>>

initialize_country_lookup ==
    /\ pc = "lookup"
    /\ events' = Append(events, <<"lookup", 0>>)
    /\ LET lookup_df == create_country_lookup(country_categories)
           vs == register(views, LookupName, lookup_df.data)
           created == create_table_as_select(vs, tables, LookupName)
       IN  IF ~lookup_df.ok
           THEN /\ Propagate(lookup_df.err, "lookup")
                /\ UNCHANGED <<store, last_write>>
           ELSE /\ views' = vs
                /\ tables' = created.tables
                /\ last_write' = [name |-> LookupName, df |-> lookup_df.data]
                /\ IF created.ok
                   THEN pc' = "sheet" /\ UNCHANGED <<outcome, failed_in>>
                   ELSE Propagate(created.err, "lookup")
    /\ UNCHANGED <<inputs, elsewhere, sheet, op, query, pending, data, applied, extracted,
                   registered, at_sheet_start, runs>>

skip_sheet ==
    /\ in_loop
    /\ sheet <= Len(config)
    /\ ~flagged(config[sheet])
    /\ sheet' = sheet + 1
    /\ UNCHANGED <<inputs, elsewhere, store, pc, op, query, pending, outcome, failed_in, data,
                   history, runs>>

extract_sheet ==
    /\ in_loop
    /\ sheet <= Len(config)
    /\ flagged(config[sheet])
    /\ events' = Append(events, <<"extract", sheet>>)
    /\ at_sheet_start' = tables
    /\ applied' = <<>>
    /\ registered' = FALSE
    /\ LET got == extract(config[sheet].extract, pandas_regex)
       IN  IF got.ok
           THEN /\ data' = got.data
                /\ extracted' = got.data
                /\ pc' = "transform"
                /\ op' = 1
                /\ UNCHANGED <<outcome, failed_in>>
           ELSE /\ Propagate(got.err, "extract")
                /\ UNCHANGED <<data, extracted, op>>
    /\ UNCHANGED <<inputs, elsewhere, store, sheet, query, pending, last_write, runs>>

finish_run ==
    /\ in_loop
    /\ sheet > Len(config)
    /\ pc' = "done"
    /\ outcome' = "completed"
    /\ UNCHANGED <<inputs, elsewhere, store, sheet, op, query, pending, failed_in, data,
                   history, runs>>

\* ------------------------------------------------------------- _transform()
\* One turn of the loop of _transform: the transformer the loop is at is called
\* and returns a frame, or raises.
TransformStep(name, result) ==
    /\ pc = "transform"
    /\ transformers[op] = name
    /\ applied' = Append(applied, name)
    /\ events' = IF op = 1 THEN Append(events, <<"transform", sheet>>) ELSE events
    /\ IF result.ok
       THEN data' = result.data /\ Advance
       ELSE Propagate(result.err, "transform") /\ UNCHANGED <<data, op>>
    /\ UNCHANGED <<inputs, elsewhere, store, sheet, query, pending, extracted, registered,
                   last_write, at_sheet_start, runs>>

ApplyValueReplacements ==
    TransformStep("REPLACE", apply_value_replacements(data, transform_config))

ApplyForwardFill ==
    TransformStep("FORWARD_FILL", apply_forward_fill(data, transform_config))

ApplyEntryCorrections ==
    TransformStep("CORRECT", apply_entry_corrections(data, transform_config))

ApplyDatatypes ==
    TransformStep("DATATYPE", apply_datatypes(data, transform_config))

ApplyDatetimeConversion ==
    TransformStep("DATETIME", apply_datetime_conversion(data, transform_config))

ApplyColumnRenames ==
    TransformStep("RENAME", apply_column_renames(data, transform_config))

CleanColumnNames ==
    TransformStep("CLEAN", clean_column_names(data, transform_config))

ReshapeData ==
    TransformStep("MELT", reshape_data(data, transform_config))

\* _add_columns_from_sql up to its try: nothing to do, or the frame is
\* registered under the alias
add_columns_from_sql ==
    /\ pc = "transform"
    /\ transformers[op] = "ADD_COLUMNS"
    /\ applied' = Append(applied, "ADD_COLUMNS")
    /\ events' = IF op = 1 THEN Append(events, <<"transform", sheet>>) ELSE events
    /\ IF ~Truthy(transform_config["add_columns"])
       THEN /\ Advance
            /\ UNCHANGED <<store, query, registered>>
       ELSE /\ views' = register(views, temp_table, data)
            /\ registered' = TRUE
            /\ pc' = "query"
            /\ query' = 1
            /\ UNCHANGED <<tables, op, outcome, failed_in>>
    /\ UNCHANGED <<inputs, elsewhere, sheet, pending, data, extracted, last_write,
                   at_sheet_start, runs>>

\* As rebind_data, but the fetched frame is registered under the alias again.
rebind_data_and_register(vs, fetched) == register(vs, temp_table, fetched)

\* data = ....fetchdf(): the local name is bound to the fetched frame; the
\* alias stays registered with the frame it was registered with
rebind_data(vs, fetched) == vs

\* One turn of the loop inside the try: the next join query is executed and
\* its result fetched; an exception leaves the loop for the finally clause
execute_join_query ==
    /\ pc = "query"
    /\ LET queries == JoinQueries(transform_config["add_columns"])
           fetched == execute_query(queries[query], views, tables)
       IN  IF fetched.ok
           THEN /\ data' = fetched.data
                /\ views' = rebind_data(views, fetched.data)
                /\ IF query = Len(queries)
                   THEN pc' = "finally" /\ query' = query
                   ELSE pc' = "query" /\ query' = query + 1
                /\ UNCHANGED pending
           ELSE /\ pending' = fetched.err
                /\ pc' = "finally"
                /\ UNCHANGED <<data, query, views>>
    /\ UNCHANGED <<inputs, elsewhere, tables, sheet, op, outcome, failed_in, history, runs>>

\* As finally_drop, but the drops follow the loop instead of standing in a
\* finally clause: an exception skips them.
finally_drop_on_success(vs, ts, err) ==
    IF err = "none"
    THEN [views |-> Drop(vs, temp_table), tables |-> Drop(ts, temp_table)]
    ELSE [views |-> vs, tables |-> ts]

\* The finally clause: DROP VIEW IF EXISTS alias, DROP TABLE IF EXISTS alias,
\* whether the try ended with an exception (err) or not ("none")
finally_drop(vs, ts, err) == [views |-> Drop(vs, temp_table), tables |-> Drop(ts, temp_table)]

drop_temp_table ==
    /\ pc = "finally"
    /\ LET dropped == finally_drop(views, tables, pending)
       IN  views' = dropped.views /\ tables' = dropped.tables
    /\ pending' = "none"
    /\ IF pending = "none" THEN Advance ELSE Propagate(pending, "transform") /\ UNCHANGED op
    /\ UNCHANGED <<inputs, elsewhere, sheet, query, data, history, runs>>

\* -------------------------------------------------------------------- _load()
load ==
    /\ pc = "load"
    /\ events' = Append(events, <<"load", sheet>>)
    /\ LET name == config[sheet].load.name
           vs == register(views, name, data)
           created == create_table_as_select(vs, tables, name)
       IN  /\ views' = vs
           /\ tables' = created.tables
           /\ last_write' = [name |-> name, df |-> data]
           /\ IF created.ok
              THEN pc' = "sheet" /\ sheet' = sheet + 1 /\ UNCHANGED <<outcome, failed_in>>
              ELSE Propagate(created.err, "load") /\ UNCHANGED sheet
    /\ UNCHANGED <<inputs, elsewhere, op, query, pending, data, applied, extracted, registered,
                   at_sheet_start, runs>>

\* run() is executed again against the same store with the same inputs: by the
\* same pipeline object (the connection's registered frames are still there) or
\* by a new process (a new connection: none are).
run_again ==
    /\ pc = "done"
    /\ run_no < MaxRuns
    /\ run_no' = run_no + 1
    /\ after_previous' = tables
    /\ \E same_connection \in BOOLEAN :
          views' = IF same_connection THEN views ELSE EmptySpace
    /\ pc' = "lookup" /\ sheet' = 1 /\ op' = 1 /\ query' = 1
    /\ pending' = "none" /\ outcome' = "running" /\ failed_in' = "none"
    /\ data' = NoFrame /\ events' = <<>> /\ applied' = <<>> /\ extracted' = NoFrame
    /\ registered' = FALSE /\ last_write' = NoWrite
    /\ at_sheet_start' = tables
    /\ UNCHANGED <<inputs, elsewhere, tables>>

Next ==
    \/ initialize_country_lookup
    \/ skip_sheet
    \/ extract_sheet
    \/ ApplyValueReplacements
    \/ ApplyForwardFill
    \/ ApplyEntryCorrections
    \/ ApplyDatatypes
    \/ ApplyDatetimeConversion
    \/ ApplyColumnRenames
    \/ CleanColumnNames
    \/ ReshapeData
    \/ add_columns_from_sql
    \/ execute_join_query
    \/ drop_temp_table
    \/ load
    \/ finish_run
    \/ run_again

Spec == Init /\ [][Next]_vars

\* ------------------------------------------- _transform() on its own inputs
\* A run that has built the lookup table in an empty store and extracted the
\* sheet "Aid", about to call _transform with any transform configuration of at
\* most MaxKeys keys, the keys written in any order.
InitTransform ==
    /\ config \in {<<SheetConfig("True", ExAid, tc, "t_a")>> : tc \in TransformConfigs}
    /\ country_categories = CompleteTaxonomy
    /\ pandas_regex \in BOOLEAN
    /\ tables = Put(EmptySpace, LookupName, create_country_lookup(CompleteTaxonomy).data)
    /\ views = tables
    /\ pc = "transform" /\ sheet = 1 /\ op = 1 /\ query = 1
    /\ pending = "none" /\ outcome = "running" /\ failed_in = "none"
    /\ data = extract(ExAid, pandas_regex).data
    /\ extracted = data
    /\ events = <<<<"lookup", 0>>, <<"extract", 1>>>>
    /\ applied = <<>>
    /\ registered = FALSE
    /\ last_write = [name |-> LookupName, df |-> tables[LookupName]]
    /\ at_sheet_start = tables
    /\ run_no = 1
    /\ ElsewhereIdle
    /\ after_previous = EmptySpace

NextTransform ==
    \/ ApplyValueReplacements
    \/ ApplyForwardFill
    \/ ApplyEntryCorrections
    \/ ApplyDatatypes
    \/ ApplyDatetimeConversion
    \/ ApplyColumnRenames
    \/ CleanColumnNames
    \/ ReshapeData
    \/ add_columns_from_sql
    \/ execute_join_query
    \/ drop_temp_table

SpecTransform == InitTransform /\ [][NextTransform]_vars

\* ------------------------------------- the transformers on frames of any shape
\* The number of rows of the frames the transformers are tried on.
MaxRows == 3

\* Rows over the columns Ty, Ab, V, with and without missing values.
FrameRows ==
    {<<ty, <<"int", "2">>, v>> : ty \in {Null, <<"int", "1">>, <<"int", "2">>},
                                 v \in {Null, <<"int", "1">>}}

\* The frames _transform is handed: every sequence of at most MaxRows rows, and
\* the column [1, None, None, 2, None] beside two columns without gaps.
Frames ==
    {DataFrame(<<NameTy, NameAb, NameV>>, rows) : rows \in SeqsUpTo(FrameRows, MaxRows)}
    \cup {DataFrame(<<NameTy, NameAb, NameV>>,
                    << <<<<"int", "1">>, <<"int", "2">>, <<"int", "1">>>>,
                       <<Null, <<"int", "2">>, <<"int", "1">>>>,
                       <<Null, <<"int", "2">>, <<"int", "1">>>>,
                       <<<<"int", "2">>, <<"int", "2">>, <<"int", "1">>>>,
                       <<Null, <<"int", "2">>, <<"int", "1">>>> >>)}

FrameConfigs ==
    {<<<<"forward_fill_column", "ff_ty">>>>, <<<<"forward_fill_column", "ff_v">>>>,
     <<<<"reshape", "melt_raw">>>>, <<<<"reshape", "melt_ab">>>>,
     <<<<"add_columns", "q_two">>>>}

InitFrames ==
    /\ config \in {<<SheetConfig("True", ExAid, tc, "t_a")>> : tc \in FrameConfigs}
    /\ country_categories = CompleteTaxonomy
    /\ pandas_regex = TRUE
    /\ tables = Put(EmptySpace, LookupName, create_country_lookup(CompleteTaxonomy).data)
    /\ views = tables
    /\ pc = "transform" /\ sheet = 1 /\ op = 1 /\ query = 1
    /\ pending = "none" /\ outcome = "running" /\ failed_in = "none"
    /\ data \in Frames
    /\ extracted = data
    /\ events = <<<<"lookup", 0>>, <<"extract", 1>>>>
    /\ applied = <<>>
    /\ registered = FALSE
    /\ last_write = [name |-> LookupName, df |-> tables[LookupName]]
    /\ at_sheet_start = tables
    /\ run_no = 1
    /\ ElsewhereIdle
    /\ after_previous = EmptySpace

SpecFrames == InitFrames /\ [][NextTransform]_vars

\* ------------------------------------- the lookup builder on its own inputs
\* A pipeline with no sheets, over an empty store, with any taxonomy.
InitLookup ==
    /\ config = <<>>
    /\ country_categories \in Taxonomies
    /\ pandas_regex = TRUE
    /\ tables = EmptySpace
    /\ views = EmptySpace
    /\ StartOfRun
    /\ at_sheet_start = tables
    /\ run_no = 1
    /\ ElsewhereIdle
    /\ after_previous = EmptySpace

NextLookup == initialize_country_lookup \/ finish_run

SpecLookup == InitLookup /\ [][NextLookup]_vars

\* ---------------------------------------------------------------- monitor
\* PipelineMonitor.track_step as the generator behind @contextmanager runs it:
\* the code before the yield, the body of the with statement, then the except
\* clause and the finally clause.

\* The number of scopes entered in all.
MaxSteps == 3

\* d[k] = v on a dict
SetItem(d, k, v) == [n \in DOMAIN d \cup {k} |-> IF n = k THEN v ELSE d[n]]

\* What a body can raise: exceptions deriving from Exception, with and without
\* a message, and KeyboardInterrupt, which derives from BaseException only.
Exceptions ==
    {[cls |-> "ValueError", msg |-> "bad sheet"],
     [cls |-> "RuntimeError", msg |-> ""],
     [cls |-> "KeyboardInterrupt", msg |-> ""]}

\* isinstance(e, Exception)
IsException(e) == e.cls \in {"ValueError", "RuntimeError"}

\* str(e)
str_of(e) == e.msg

StepNames == {"extract", "load"}

Top == scopes[Len(scopes)]

SetTop(step_data) == [scopes EXCEPT ![Len(scopes)].step_data = step_data]

\* step_data as track_step builds it before the yield
new_step_data(step_name) ==
    [k \in {"step_name", "start_time", "metadata", "status"} |->
        CASE k = "step_name" -> step_name
          [] k = "start_time" -> now
          [] k = "metadata" -> "{}"
          [] OTHER -> "running"]

\* except Exception as e: status failed, error str(e); raise
except_clause_no_error(step_data, e) ==
    IF IsException(e) THEN SetItem(step_data, "status", "failed") ELSE step_data

except_clause(step_data, e) ==
    IF IsException(e)
    THEN SetItem(SetItem(step_data, "status", "failed"), "error", str_of(e))
    ELSE step_data

\* finally: duration_seconds, end_time, then the append to the log's steps
finally_clause_unless_raised(steps, step_data, step_start, e) ==
    IF e = NoException
    THEN Append(steps, SetItem(SetItem(step_data, "duration_seconds", now - step_start),
                               "end_time", now))
    ELSE steps

finally_clause(steps, step_data, step_start, e) ==
    Append(steps, SetItem(SetItem(step_data, "duration_seconds", now - step_start),
                          "end_time", now))

\* The monitor is exercised on its own: the pipeline stands still, as built.
PipelineIdle ==
    /\ config = <<>>
    /\ country_categories = CompleteTaxonomy
    /\ pandas_regex = TRUE
    /\ tables = EmptySpace
    /\ views = EmptySpace
    /\ StartOfRun
    /\ at_sheet_start = tables
    /\ run_no = 1
    /\ after_previous = EmptySpace

\* with monitor.track_step(step_name): the generator runs up to its yield.
enter_scope ==
    /\ mpc = "body"
    /\ Len(scopes) + Len(execution_log.steps) < MaxSteps
    /\ \E step_name \in StepNames :
          scopes' = Append(scopes, [step_data |-> new_step_data(step_name),
                                    step_start |-> now])
    /\ UNCHANGED <<pipeline, validator, result_cache, execution_log, raising, mpc, left, now>>

\* The body finishes: the generator resumes after the yield and sets completed.
body_returns ==
    /\ mpc = "body" /\ scopes # <<>>
    /\ now' = now + 1
    /\ scopes' = SetTop(SetItem(Top.step_data, "status", "completed"))
    /\ mpc' = "finally"
    /\ UNCHANGED <<pipeline, validator, result_cache, execution_log, raising, left>>

\* The body raises: the exception is thrown into the generator at the yield.
body_raises ==
    /\ mpc = "body" /\ scopes # <<>>
    /\ now' = now + 1
    /\ \E e \in Exceptions : raising' = e
    /\ mpc' = "except"
    /\ UNCHANGED <<pipeline, validator, result_cache, execution_log, scopes, left>>

\* The except clause of the innermost open scope meets the exception.
run_except_clause ==
    /\ mpc = "except"
    /\ scopes' = SetTop(except_clause(Top.step_data, raising))
    /\ mpc' = "finally"
    /\ UNCHANGED <<pipeline, validator, result_cache, execution_log, raising, left, now>>

\* The finally clause closes the innermost open scope; an exception in flight
\* then reaches the code around the with statement.
run_finally_clause ==
    /\ mpc = "finally"
    /\ execution_log' =
          [execution_log EXCEPT
              !.steps = finally_clause(@, Top.step_data, Top.step_start, raising)]
    /\ left' = Top
    /\ scopes' = SubSeq(scopes, 1, Len(scopes) - 1)
    /\ mpc' = IF raising = NoException THEN "body" ELSE "raised"
    /\ UNCHANGED <<pipeline, validator, result_cache, raising, now>>

\* The code around the with statement is the body of the enclosing scope and
\* does not catch: the enclosing scope's body raises the same exception.
raise_in_enclosing_scope ==
    /\ mpc = "raised" /\ scopes # <<>>
    /\ mpc' = "except"
    /\ UNCHANGED <<pipeline, validator, result_cache, execution_log, scopes, raising, left, now>>

\* The code around the with statement catches the exception and goes on.
caller_catches ==
    /\ mpc = "raised"
    /\ raising' = NoException
    /\ mpc' = "body"
    /\ UNCHANGED <<pipeline, validator, result_cache, execution_log, scopes, left, now>>

\* Nothing catches the exception: the program ends.
uncaught ==
    /\ mpc = "raised" /\ scopes = <<>>
    /\ mpc' = "exit"
    /\ UNCHANGED <<pipeline, validator, result_cache, execution_log, scopes, raising, left, now>>

\* PipelineMonitor.get_execution_summary
get_execution_summary(log) ==
    LET total_steps == Len(log.steps)
        failed_steps ==
            Cardinality({i \in 1..Len(log.steps) : log.steps[i]["status"] = "failed"})
        successful_steps == total_steps - failed_steps
    IN  [status |-> log.status,
         total_steps |-> total_steps,
         successful_steps |-> successful_steps,
         failed_steps |-> failed_steps]

InitMonitor == PipelineIdle /\ NewMonitor /\ NewCache /\ NewValidator

NextMonitor ==
    \/ enter_scope
    \/ body_returns
    \/ body_raises
    \/ run_except_clause
    \/ run_finally_clause
    \/ raise_in_enclosing_scope
    \/ caller_catches
    \/ uncaught

SpecMonitor == InitMonitor /\ [][NextMonitor]_vars

\* ------------------------------------------------------------ result cache
\* DataCache, the module's data_cache and the lazy_data_loader wrapper,
\* called from several threads.

\* The number of calls the threads make in all, and how far the clock runs.
MaxCalls == 3
MaxTime == 2

\* data_cache = DataCache(default_ttl=600)
default_ttl == 600

Keys == {"k1", "k2"}

\* What is cached: a frame, or None.
Values == {"df1", None}

Ttls == {NoTtl, <<0>>, <<1>>}

\* The wrappers: lazy_data_loader(cache_key, ttl, loading_placeholder)
WrapperConfigs ==
    {[cache_key |-> "k1", ttl |-> NoTtl, loading_placeholder |-> None],
     [cache_key |-> "k1", ttl |-> <<0>>, loading_placeholder |-> "empty_df"],
     [cache_key |-> "k1", ttl |-> <<1>>, loading_placeholder |-> None]}

\* if x: on a key or a ttl
IsTruthyKey(cache_key) == cache_key \notin {None, ""}
IsTruthyTtl(ttl) == ttl # NoTtl /\ ttl[1] # 0

\* del d[k]; d.pop(k, None)
DelItem(d, k) == [n \in DOMAIN d \ {k} |-> d[n]]

\* now > entry["expires_at"]
IsExpired(entry, t) == t > entry.expires_at

\* DataCache.get under the lock, at time t: the cache it leaves and the value
\* it returns.
get_keep_expired(c, key, t) ==
    IF key \notin DOMAIN c THEN [cache |-> c, value |-> None]
    ELSE IF IsExpired(c[key], t) THEN [cache |-> c, value |-> None]
    ELSE [cache |-> [c EXCEPT ![key].last_accessed = t], value |-> c[key].data]

get(c, key, t) ==
    IF key \notin DOMAIN c THEN [cache |-> c, value |-> None]
    ELSE IF IsExpired(c[key], t) THEN [cache |-> DelItem(c, key), value |-> None]
    ELSE [cache |-> [c EXCEPT ![key].last_accessed = t], value |-> c[key].data]

\* As set, but an entry that is there is kept.
set_if_absent(c, key, value, ttl, t) ==
    IF key \in DOMAIN c THEN c
    ELSE SetItem(c, key, [data |-> value, created_at |-> t, last_accessed |-> t,
                          expires_at |-> t + (IF IsTruthyTtl(ttl) THEN ttl[1] ELSE default_ttl)])

\* DataCache.set at time t: ttl = ttl or self.default_ttl, then the entry
set(c, key, value, ttl, t) ==
    LET effective == IF IsTruthyTtl(ttl) THEN ttl[1] ELSE default_ttl
    IN  SetItem(c, key, [data |-> value, created_at |-> t, last_accessed |-> t,
                         expires_at |-> t + effective])

\* DataCache.invalidate: self._cache.pop(key, None)
invalidate_everything(c, key) == EmptyCache

invalidate(c, key) == DelItem(c, key)

\* DataCache.clear
clear(c) == EmptyCache

\* len(str(entry["data"]))
repr_len(value) == IF value = None THEN 4 ELSE 57

RECURSIVE SumOver(_, _)
SumOver(c, keys) ==
    IF keys = {} THEN 0
    ELSE LET k == CHOOSE k \in keys : TRUE
         IN  repr_len(c[k].data) + SumOver(c, keys \ {k})

\* DataCache.get_stats at time t
get_stats(c, t) ==
    [total_entries |-> Cardinality(DOMAIN c),
     expired_entries |-> Cardinality({k \in DOMAIN c : IsExpired(c[k], t)}),
     memory_usage_approx |-> SumOver(c, DOMAIN c)]

\* The except clause of the wrapper: the placeholder if one was configured,
\* otherwise the producer's exception again; the cache is not touched.
except_path_caches_placeholder(c, cache_key, loading_placeholder, t) ==
    IF loading_placeholder # None
    THEN [cache |-> set(c, cache_key, loading_placeholder, NoTtl, t),
          result |-> [kind |-> "return", value |-> loading_placeholder, stats |-> NoStats]]
    ELSE [cache |-> c, result |-> [kind |-> "raise", value |-> None, stats |-> NoStats]]

except_path(c, cache_key, loading_placeholder, t) ==
    IF loading_placeholder # None
    THEN [cache |-> c,
          result |-> [kind |-> "return", value |-> loading_placeholder, stats |-> NoStats]]
    ELSE [cache |-> c, result |-> [kind |-> "raise", value |-> None, stats |-> NoStats]]

Returned(value) == [kind |-> "return", value |-> value, stats |-> NoStats]

Op(name, key, value, ttl) == [name |-> name, key |-> key, data |-> value, ttl |-> ttl]

\* with self._lock: a thread that reaches the statement takes the lock if no
\* thread holds it, and waits for it otherwise.
Enter(t, cache_op, w) ==
    /\ thread' = [thread EXCEPT
                     ![t] = [pc |-> IF lock = "free" THEN "locked" ELSE "acquire",
                             op |-> cache_op, w |-> w, result |-> NoResult]]
    /\ lock' = IF lock = "free" THEN t ELSE lock

\* A thread that is in no call makes one.
CanCall(t) == thread[t].pc = "idle" /\ calls < MaxCalls

StartOp(t, cache_op, w) ==
    /\ Enter(t, cache_op, w)
    /\ calls' = calls + 1
    /\ UNCHANGED <<pipeline, validator, monitor, now, cache, evicted>>

\* The with block ends: the lock is released and the call returns.
EndOp(t, w, result) ==
    /\ lock' = "free"
    /\ thread' = [thread EXCEPT
                     ![t] = [pc |-> "idle", op |-> thread[t].op, w |-> w,
                             result |-> result]]

\* The wrapper has returned, by the statement named.
Left(statement) == [NoWrapper EXCEPT !.stage = statement]

AtBody(t, name) == thread[t].pc = "locked" /\ thread[t].op.name = name

call_get(t) ==
    /\ CanCall(t)
    /\ \E key \in Keys : StartOp(t, Op("get", key, None, NoTtl), NoWrapper)

call_set(t) ==
    /\ CanCall(t)
    /\ \E key \in Keys, ttl \in Ttls :
          StartOp(t, Op("set", key, "df2", ttl), NoWrapper)

call_invalidate(t) ==
    /\ CanCall(t)
    /\ \E key \in Keys : StartOp(t, Op("invalidate", key, None, NoTtl), NoWrapper)

call_clear(t) ==
    /\ CanCall(t)
    /\ StartOp(t, Op("clear", "", None, NoTtl), NoWrapper)

call_get_stats(t) ==
    /\ CanCall(t)
    /\ StartOp(t, Op("get_stats", "", None, NoTtl), NoWrapper)

\* LazyDataLoader.invalidate_cache(cache_key)
invalidate_cache(t) ==
    /\ CanCall(t)
    /\ \E cache_key \in Keys \cup {None, ""} :
          IF IsTruthyKey(cache_key)
          THEN StartOp(t, Op("invalidate", cache_key, None, NoTtl), NoWrapper)
          ELSE StartOp(t, Op("clear", "", None, NoTtl), NoWrapper)

\* A thread calls a wrapper: cached_data = data_cache.get(cache_key)
call_wrapper(t) ==
    /\ CanCall(t)
    /\ \E cfg \in WrapperConfigs :
        StartOp(t, Op("get", cfg.cache_key, None, NoTtl),
                [NoWrapper EXCEPT !.stage = "get", !.cache_key = cfg.cache_key,
                                  !.ttl = cfg.ttl,
                                  !.loading_placeholder = cfg.loading_placeholder])

\* A waiting thread takes the lock once no thread holds it.
acquire(t) ==
    /\ thread[t].pc = "acquire"
    /\ lock = "free"
    /\ lock' = t
    /\ thread' = [thread EXCEPT ![t].pc = "locked"]
    /\ UNCHANGED <<pipeline, validator, monitor, now, cache, calls, evicted>>

\* As is_not_None, but whatever get returned is taken for the cached data.
is_anything(cached_data) == TRUE

\* if cached_data is not None
is_not_None(cached_data) == cached_data # None

\* DataCache.get under the lock; in a wrapper, the test of cached_data follows.
run_get(t) ==
    /\ AtBody(t, "get")
    /\ LET key == thread[t].op.key
           r == get(cache, key, now)
           w == thread[t].w
       IN  /\ cache' = r.cache
           /\ evicted' = IF DOMAIN r.cache # DOMAIN cache
                         THEN [evicted EXCEPT !.get = @ + 1] ELSE evicted
           /\ IF w.stage # "get"
              THEN EndOp(t, NoWrapper, Returned(r.value))
              ELSE IF is_not_None(r.value)
              THEN EndOp(t, Left("return cached_data"), Returned(r.value))
              ELSE /\ lock' = "free"
                   /\ thread' = [thread EXCEPT
                                    ![t] = [pc |-> "func", op |-> NoOp,
                                            w |-> [w EXCEPT !.stage = "func"],
                                            result |-> NoResult]]
    /\ UNCHANGED <<pipeline, validator, monitor, now, calls>>

\* data = func(): the producer returns a value, or raises and the except
\* clause of the wrapper runs.
run_func(t) ==
    /\ thread[t].pc = "func"
    /\ LET w == thread[t].w
       IN  \E out \in Values \cup {"raise"} :
              IF out = "raise"
              THEN LET x == except_path(cache, w.cache_key, w.loading_placeholder, now)
                   IN  /\ cache' = x.cache
                       /\ thread' = [thread EXCEPT
                                        ![t] = [pc |-> "idle", op |-> NoOp,
                                                w |-> Left(IF x.result.kind = "raise"
                                                           THEN "raise e"
                                                           ELSE "return loading_placeholder"),
                                                result |-> x.result]]
                       /\ UNCHANGED lock
              ELSE /\ Enter(t, Op("set", w.cache_key, out, w.ttl),
                            [w EXCEPT !.stage = "set", !.data = out])
                   /\ UNCHANGED cache
    /\ UNCHANGED <<pipeline, validator, monitor, now, calls, evicted>>

\* DataCache.set under the lock; in a wrapper, return data follows.
run_set(t) ==
    /\ AtBody(t, "set")
    /\ LET cache_op == thread[t].op
           w == thread[t].w
       IN  /\ cache' = set(cache, cache_op.key, cache_op.data, cache_op.ttl, now)
           /\ IF w.stage = "set"
              THEN EndOp(t, Left("return data"), Returned(w.data))
              ELSE EndOp(t, NoWrapper, Returned(None))
    /\ UNCHANGED <<pipeline, validator, monitor, now, calls, evicted>>

run_invalidate(t) ==
    /\ AtBody(t, "invalidate")
    /\ cache' = invalidate(cache, thread[t].op.key)
    /\ evicted' = IF DOMAIN cache' # DOMAIN cache
                  THEN [evicted EXCEPT !.invalidate = @ + 1] ELSE evicted
    /\ EndOp(t, NoWrapper, Returned(None))
    /\ UNCHANGED <<pipeline, validator, monitor, now, calls>>

run_clear(t) ==
    /\ AtBody(t, "clear")
    /\ cache' = clear(cache)
    /\ EndOp(t, NoWrapper, Returned(None))
    /\ UNCHANGED <<pipeline, validator, monitor, now, calls, evicted>>

run_get_stats(t) ==
    /\ AtBody(t, "get_stats")
    /\ EndOp(t, NoWrapper, [kind |-> "return", value |-> None,
                            stats |-> get_stats(cache, now)])
    /\ UNCHANGED <<pipeline, validator, monitor, now, cache, calls, evicted>>

\* A second passes.
tick ==
    /\ now < MaxTime
    /\ now' = now + 1
    /\ UNCHANGED <<pipeline, validator, monitor, result_cache>>

\* One thread calls the cache and the wrappers.
Caller == "t1"

InitCache ==
    /\ PipelineIdle /\ NewMonitor /\ NewValidator
    /\ cache = EmptyCache
    /\ lock = "free"
    /\ thread = [t \in {Caller} |-> IdleThread]
    /\ calls = 0
    /\ evicted = [get |-> 0, invalidate |-> 0]

NextCache ==
    \/ call_get(Caller)
    \/ call_set(Caller)
    \/ call_invalidate(Caller)
    \/ call_clear(Caller)
    \/ call_get_stats(Caller)
    \/ invalidate_cache(Caller)
    \/ call_wrapper(Caller)
    \/ run_get(Caller)
    \/ run_func(Caller)
    \/ run_set(Caller)
    \/ run_invalidate(Caller)
    \/ run_clear(Caller)
    \/ run_get_stats(Caller)
    \/ tick

SpecCache == InitCache /\ [][NextCache]_vars

\* Several threads call the cache and the wrappers concurrently.
InitThreads == PipelineIdle /\ NewMonitor /\ NewCache /\ NewValidator

NextThreads ==
    \/ \E t \in Threads : call_get(t)
    \/ \E t \in Threads : call_set(t)
    \/ \E t \in Threads : call_invalidate(t)
    \/ \E t \in Threads : call_clear(t)
    \/ \E t \in Threads : call_get_stats(t)
    \/ \E t \in Threads : invalidate_cache(t)
    \/ \E t \in Threads : call_wrapper(t)
    \/ \E t \in Threads : acquire(t)
    \/ \E t \in Threads : run_get(t)
    \/ \E t \in Threads : run_func(t)
    \/ \E t \in Threads : run_set(t)
    \/ \E t \in Threads : run_invalidate(t)
    \/ \E t \in Threads : run_clear(t)
    \/ \E t \in Threads : run_get_stats(t)
    \/ tick

SpecThreads == InitThreads /\ [][NextThreads]_vars

\* Several threads call the wrappers concurrently, and invalidate entries.
NextWrappers ==
    \/ \E t \in Threads : call_wrapper(t)
    \/ \E t \in Threads : call_invalidate(t)
    \/ \E t \in Threads : acquire(t)
    \/ \E t \in Threads : run_get(t)
    \/ \E t \in Threads : run_func(t)
    \/ \E t \in Threads : run_set(t)
    \/ \E t \in Threads : run_invalidate(t)
    \/ tick

SpecWrappers == InitThreads /\ [][NextWrappers]_vars

\* -------------------------------------------------------------- validator
\* PipelineValidator: each check is one call that either raises or appends its
\* entry to validation_log and returns the entry's metadata.

\* The number of entries the validation log grows to.
MaxChecks == 3

\* raise DataValidationError(f"...")
DataValidationError(prefix, what) == [cls |-> "DataValidationError", msg |-> <<prefix, what>>]

\* The files the paths name: Path.exists(), and what reading the file gives.
ExcelPaths == {"data.xlsx", "gone.xlsx", "notes.txt"}
ConfigPaths == {"config.yaml", "gone.yaml", "empty.yaml", "broken.yaml"}
DbPaths == {"tracker.db", "gone.db"}
OutputPaths == {"report.json", "nodir/report.json"}

exists(path) == path \notin {"gone.xlsx", "gone.yaml", "gone.db"}

\* pd.ExcelFile(excel_path).sheet_names; a file that is no workbook raises
ExcelFile(excel_path) ==
    IF excel_path = "data.xlsx"
    THEN [ok |-> TRUE, sheet_names |-> <<"Aid", "Notes", "Empty">>, err |-> "none"]
    ELSE [ok |-> FALSE, sheet_names |-> <<>>, err |-> "ValueError"]

\* yaml.safe_load of the configuration file: a list of sheet specs, None for
\* an empty file, YAMLError for a malformed one.  An item is a mapping with
\* its read key, or a scalar.
YamlItem(is_dict, read) == [is_dict |-> is_dict, read |-> read]

safe_load(path) ==
    CASE path = "config.yaml" ->
           [ok |-> TRUE, is_none |-> FALSE,
            value |-> <<YamlItem(TRUE, "True"), YamlItem(TRUE, "False"),
                        YamlItem(TRUE, "missing"), YamlItem(FALSE, "missing")>>]
      [] path = "empty.yaml" -> [ok |-> TRUE, is_none |-> TRUE, value |-> <<>>]
      [] OTHER -> [ok |-> FALSE, is_none |-> FALSE, value |-> <<>>]

\* _calculate_file_hash: the digest stands for the file it was computed from
calculate_file_hash(path) == <<"sha256", path>>

\* {"step": ..., "status": "passed", "metadata": ...}
log_entry(step, metadata) ==
    [k \in {"step", "status", "metadata"} |->
        CASE k = "step" -> step
          [] k = "status" -> "passed"
          [] OTHER -> metadata]

\* What a check leaves: the log, what it raised, and what it returned.
Checked(log, raised, value) == [validation_log |-> log, raised |-> raised, value |-> value]

\* As validation_log.append(entry), but the entry goes to the front.
log_append_front(log, e) == <<e>> \o log

\* self.validation_log.append(entry)
log_append(log, e) == Append(log, e)

\* PipelineValidator.validate_source_file
validate_source_file(log, excel_path, t) ==
    IF ~exists(excel_path)
    THEN Checked(log, DataValidationError("Source file not found: ", excel_path), NoMetadata)
    ELSE LET book == ExcelFile(excel_path)
             metadata == [file_path |-> excel_path,
                          file_hash |-> calculate_file_hash(excel_path),
                          validation_timestamp |-> t,
                          available_sheets |-> book.sheet_names]
         IN  IF ~book.ok
             THEN Checked(log, DataValidationError("Failed to read Excel file: ", book.err),
                          NoMetadata)
             ELSE Checked(log_append(log, log_entry("source_validation", metadata)),
                          NoRaise, metadata)

\* PipelineValidator.validate_config_integrity
validate_config_integrity(log, path, t) ==
    IF ~exists(path)
    THEN Checked(log, DataValidationError("Config file not found: ", path), NoMetadata)
    ELSE LET loaded == safe_load(path)
             cfg == loaded.value
             required_sheets ==
                 {i \in 1..Len(cfg) : cfg[i].is_dict /\ cfg[i].read = "True"}
             validation_result ==
                 [config_path |-> path,
                  total_sheets_configured |-> Len(cfg),
                  sheets_to_process |-> Cardinality(required_sheets),
                  config_hash |-> calculate_file_hash(path),
                  validation_timestamp |-> t]
         IN  CASE ~loaded.ok -> Checked(log, [cls |-> "YAMLError", msg |-> <<>>], NoMetadata)
               [] loaded.is_none -> Checked(log, [cls |-> "TypeError", msg |-> <<>>], NoMetadata)
               [] OTHER ->
                    Checked(log_append(log, log_entry("config_validation", validation_result)),
                            NoRaise, validation_result)

\* df.isnull().sum() of one column
null_count(df, c) == Cardinality({r \in 1..Len(df.rows) : IsNull(df.rows[r][c])})

\* df.duplicated().sum(): the rows equal to an earlier row
duplicated_sum(df) ==
    Cardinality({r \in 1..Len(df.rows) : \E q \in 1..(r - 1) : df.rows[q] = df.rows[r]})

\* The result validate_extracted_data builds; a frame read with header=None
\* has object columns only, so the loop over numeric columns adds nothing.
extracted_result(table_name, df, t) ==
    [table_name |-> table_name,
     row_count |-> Len(df.rows),
     column_count |-> Len(df.columns),
     columns |-> df.columns,
     null_counts |-> [c \in 1..Len(df.columns) |-> null_count(df, c)],
     duplicate_rows |-> duplicated_sum(df),
     validation_timestamp |-> t]

\* As validate_extracted_data, but the entry is logged before the row count
\* is looked at.
validate_extracted_data_log_first(log, table_name, df, t) ==
    LET validation_result == extracted_result(table_name, df, t)
        logged == log_append(log, SetItem(log_entry("data_extraction_validation",
                                                    validation_result),
                                          "table", table_name))
    IN  IF Len(df.rows) = 0
        THEN Checked(logged, DataValidationError("Table is empty: ", table_name), NoMetadata)
        ELSE Checked(logged, NoRaise, validation_result)

\* PipelineValidator.validate_extracted_data
validate_extracted_data(log, table_name, df, t) ==
    LET validation_result == extracted_result(table_name, df, t)
    IN  IF Len(df.rows) = 0
        THEN Checked(log, DataValidationError("Table is empty: ", table_name), NoMetadata)
        ELSE Checked(log_append(log, SetItem(log_entry("data_extraction_validation",
                                                       validation_result),
                                             "table", table_name)),
                     NoRaise, validation_result)

\* PipelineValidator.validate_database_integrity; ts is schema main of the
\* database file
validate_database_integrity(log, path, ts, t) ==
    IF ~exists(path)
    THEN Checked(log, DataValidationError("Database not found: ", path), NoMetadata)
    ELSE LET table_names == DOMAIN ts
             table_stats ==
                 [n \in table_names |->
                     [row_count |-> Len(ts[n].rows),
                      column_count |-> Len(ts[n].columns),
                      columns |-> ts[n].columns]]
             validation_result ==
                 [database_path |-> path,
                  table_count |-> Cardinality(table_names),
                  tables |-> table_names,
                  validation_timestamp |-> t,
                  table_statistics |-> table_stats]
         IN  Checked(log_append(log, log_entry("database_validation", validation_result)),
                     NoRaise, validation_result)

\* The document save_validation_report dumps; json.dump writes a list as an
\* array in the list's order.
validation_report(log, t) ==
    [execution_timestamp |-> t,
     total_validation_steps |-> Len(log),
     validation_log |-> [i \in 1..Len(log) |-> log[i]]]

\* The frames handed to validate_extracted_data: what _extract returns for a
\* sheet with rows and for a sheet with a header row only, and a frame with a
\* repeated row.
ExtractedFrames ==
    {extract(ExAid, TRUE).data, extract(ExEmpty, TRUE).data,
     DataFrame(<<NameTy>>, <<<<Str(<<"x">>)>>, <<Str(<<"x">>)>>>>)}

\* A call of a check: the log it leaves, and the record of the call.
Check(call, result) ==
    /\ validation_log' = result.validation_log
    /\ checked' = [call |-> call, raised |-> result.raised, value |-> result.value]
    /\ passed' = IF result.raised = NoRaise THEN Append(passed, call) ELSE passed
    /\ UNCHANGED <<pipeline, monitor, now, result_cache, config_path, db_path, report>>

call_validate_source_file ==
    /\ Len(validation_log) < MaxChecks
    /\ \E excel_path \in ExcelPaths :
          Check("validate_source_file",
                validate_source_file(validation_log, excel_path, now))

call_validate_config_integrity ==
    /\ Len(validation_log) < MaxChecks
    /\ Check("validate_config_integrity",
             validate_config_integrity(validation_log, config_path, now))

call_validate_extracted_data ==
    /\ Len(validation_log) < MaxChecks
    /\ \E df \in ExtractedFrames :
          Check("validate_extracted_data",
                validate_extracted_data(validation_log, "t_a", df, now))

call_validate_database_integrity ==
    /\ Len(validation_log) < MaxChecks
    /\ Check("validate_database_integrity",
             validate_database_integrity(validation_log, db_path, tables, now))

\* PipelineValidator.save_validation_report: open(output_path, "w") fails for
\* a directory that does not exist, and then writes nothing.
save_validation_report ==
    /\ \E output_path \in OutputPaths :
          IF output_path = "report.json"
          THEN /\ report' = validation_report(validation_log, now)
               /\ checked' = [call |-> "save_validation_report", raised |-> NoRaise,
                              value |-> NoMetadata]
          ELSE /\ report' = report
               /\ checked' = [call |-> "save_validation_report",
                              raised |-> [cls |-> "FileNotFoundError", msg |-> <<>>],
                              value |-> NoMetadata]
    /\ UNCHANGED <<pipeline, monitor, now, result_cache, validation_log, config_path,
                   db_path, passed>>

\* The validator is exercised on its own, over a store an ETL run left.
InitValidator ==
    /\ config = <<>>
    /\ country_categories = CompleteTaxonomy
    /\ pandas_regex = TRUE
    /\ tables \in InitialStores
    /\ views = EmptySpace
    /\ StartOfRun
    /\ at_sheet_start = tables
    /\ run_no = 1
    /\ after_previous = EmptySpace
    /\ NewMonitor /\ NewCache
    /\ config_path \in ConfigPaths
    /\ db_path \in DbPaths
    /\ NewLog

NextValidator ==
    \/ call_validate_source_file
    \/ call_validate_config_integrity
    \/ call_validate_extracted_data
    \/ call_validate_database_integrity
    \/ save_validation_report

SpecValidator == InitValidator /\ [][NextValidator]_vars

\* ================================================================== claims
Last(q) == q[Len(q)]

Count(q, x) == Cardinality({k \in 1..Len(q) : q[k] = x})

SheetCalls(i) == <<<<"extract", i>>, <<"transform", i>>, <<"load", i>>>>

\* C1: writing a table into the store replaces a prior table of the same name:
\* whenever _load or _initialize_country_lookup has written frame df under name
\* n, the write did not fail and table n of the store holds exactly df.
C1_WriteReplaces ==
    last_write.name # "none" =>
        /\ ~(failed_in \in {"lookup", "load"} /\ outcome = "CatalogException")
        /\ last_write.name \in DOMAIN tables
        /\ tables[last_write.name] = last_write.df

\* C2: idempotence of the run: when run() has been executed again against the
\* same store with the same workbook, configuration and taxonomy, the store
\* holds the same tables with the same contents as when the previous execution
\* ended.
C2_Idempotent == (run_no > 1 /\ pc = "done") => tables = after_previous

\* A second execution has ended on a store in which the first one, which
\* completed, had left the lookup table and two loaded tables.
C2_Witness ==
    /\ run_no = 2 /\ pc = "done"
    /\ after_previous = tables
    /\ DOMAIN tables = {LookupName, "t_a", "t_b"}
    /\ Len(tables["t_a"].rows) > 0

\* C3: a sheet is processed iff its read flag is true: every extract, transform
\* and load that run() calls is for a sheet spec whose read is true; a run that
\* completes has called each of the three exactly once for every such sheet
\* spec; and the step of the loop over a sheet spec whose read is false or
\* missing changes neither the tables nor the registered frames and makes no call.
C3_Calls ==
    /\ \A k \in 1..Len(events) :
          events[k][1] \in {"extract", "transform", "load"}
              => config[events[k][2]].read = "True"
    /\ outcome = "completed" =>
          \A i \in 1..Len(config) :
              \A c \in Range(SheetCalls(i)) :
                  Count(events, c) = (IF config[i].read = "True" THEN 1 ELSE 0)

C3_SkipStep ==
    (pc = "sheet" /\ sheet <= Len(config) /\ config[sheet].read # "True")
        => /\ tables' = tables /\ views' = views /\ events' = events
           /\ registered' = registered /\ pc' = "sheet" /\ sheet' = sheet + 1

C3_ProcessedIffRead == C3_Calls /\ [][C3_SkipStep /\ C3_Calls']_vars

\* A run completed in which one sheet spec was processed and one, whose read
\* key is false or missing, was passed over.
C3_Witness ==
    /\ outcome = "completed"
    /\ Len(config) = 2
    /\ config[1].read # "True" /\ config[2].read = "True"
    /\ <<"load", 2>> \in Range(events)
    /\ <<"extract", 1>> \notin Range(events)

\* C4: run ordering: the calls of an execution of run() are, in this order, the
\* build and write of the country lookup table, once, and then extract,
\* transform, load for each sheet spec whose read is true, the sheet specs in
\* configuration order; a run that completes has made all of them.
C4_Expected ==
    <<<<"lookup", 0>>>>
    \o Concat([i \in 1..Len(config) |->
                  IF config[i].read = "True" THEN SheetCalls(i) ELSE <<>>])

C4_RunOrder ==
    /\ IsPrefix(events, C4_Expected)
    /\ outcome = "completed" => events = C4_Expected

\* A run completed that processed two sheets.
C4_Witness ==
    /\ outcome = "completed"
    /\ events = <<<<"lookup", 0>>>> \o SheetCalls(1) \o SheetCalls(2)

\* C5: the transform chain applies its operators in the fixed sequence value
\* replacement, forward fill, entry correction, datatype coercion, datetime
\* parsing, column rename, column-name cleaning, melt reshape, SQL augmentation,
\* however the keys of the transform configuration are ordered: the transformers
\* _transform has invoked are always a prefix of that sequence, and what
\* _transform returns or raises is what applying the operators in that sequence
\* under the configuration's keys, sorted, returns or raises.
C5_Sequence ==
    <<"REPLACE", "FORWARD_FILL", "CORRECT", "DATATYPE", "DATETIME", "RENAME",
      "CLEAN", "MELT", "ADD_COLUMNS">>

C5_KeyOrder ==
    <<"replace_values", "forward_fill_column", "entry_correction", "datatypes",
      "datetime", "columnnames", "clean_column_names", "reshape", "add_columns">>

C5_Canonical(tc) ==
    LET pos(pair) == IndexOf(C5_KeyOrder, pair[1])
    IN  [k \in 1..Len(tc) |->
            CHOOSE pair \in Range(tc) :
                Cardinality({q \in Range(tc) : pos(q) < pos(pair)}) = k - 1]

C5_Then(r, F(_)) == IF r.ok THEN F(r.data) ELSE r

RECURSIVE C5_RunQueries(_, _, _, _)
C5_RunQueries(queries, current, vs, ts) ==
    IF queries = <<>> THEN Ok(current)
    ELSE LET fetched == execute_query(Head(queries), vs, ts)
         IN  IF fetched.ok THEN C5_RunQueries(Tail(queries), fetched.data, vs, ts)
             ELSE Raise(current, fetched.err)

C5_Chain(d, cfg, vs, ts) ==
    LET Replace(x) == apply_value_replacements(x, cfg)
        Fill(x) == apply_forward_fill(x, cfg)
        Correct(x) == apply_entry_corrections(x, cfg)
        Datatype(x) == apply_datatypes(x, cfg)
        Datetime(x) == apply_datetime_conversion(x, cfg)
        Rename(x) == apply_column_renames(x, cfg)
        Clean(x) == clean_column_names(x, cfg)
        Melt(x) == reshape_data(x, cfg)
        Sql(x) == IF Truthy(cfg["add_columns"])
                  THEN C5_RunQueries(JoinQueries(cfg["add_columns"]), x,
                                     register(vs, temp_table, x), ts)
                  ELSE Ok(x)
    IN  C5_Then(C5_Then(C5_Then(C5_Then(C5_Then(C5_Then(C5_Then(C5_Then(
            Replace(d), Fill), Correct), Datatype), Datetime), Rename), Clean),
            Melt), Sql)

C5_FixedOrder ==
    LET chain == C5_Chain(extracted,
                          TransformationConfig(C5_Canonical(config[sheet].transform)),
                          views, tables)
    IN  /\ IsPrefix(applied, C5_Sequence)
        /\ pc = "load" => /\ applied = C5_Sequence
                          /\ chain.ok
                          /\ data = chain.data
        /\ failed_in = "transform" => /\ ~chain.ok
                                      /\ outcome = chain.err

\* _transform returned for a configuration whose keys are written in the
\* reverse of the order their operators are applied in: the rename took effect
\* before the cleaning.
C5_Witness ==
    /\ pc = "load"
    /\ config[sheet].transform =
           <<<<"clean_column_names", "True">>, <<"columnnames", "rn_amt">>>>
    /\ NameAmt \in Range(data.columns)

\* C6: every transform operator is a no-op when its configuration key is
\* absent or its flag is false: the turn of the loop of _transform for such an
\* operator leaves the frame, the tables and the registered frames as they were
\* and raises nothing; and when no key is set _transform returns the frame
\* _extract returned, the alias never having been registered.
C6_KeyOf(name) == C5_KeyOrder[IndexOf(C5_Sequence, name)]

C6_Step ==
    (pc = "transform" /\ ~Truthy(transform_config[C6_KeyOf(transformers[op])]))
        => /\ data' = data /\ tables' = tables /\ views' = views
           /\ outcome' = outcome /\ pc' \in {"transform", "load"}

C6_Unset ==
    (pc = "load" /\ \A key \in TransformKeys : ~Truthy(transform_config[key]))
        => /\ data = extracted
           /\ ~registered
           /\ ~Queryable(views, tables, temp_table)

C6_NoOpWhenAbsent == C6_Unset /\ [][C6_Step /\ C6_Unset']_vars

\* _transform returned for a configuration with two flags set to false and
\* every other key absent.
C6_Witness ==
    /\ pc = "load"
    /\ config[sheet].transform =
           <<<<"entry_correction", "False">>, <<"clean_column_names", "False">>>>
    /\ applied = C5_Sequence

\* C7: the temporary augmentation alias is released on every exit path: outside
\* the try and finally of _add_columns_from_sql, that is whenever it has
\* returned or raised and so at the start of every sheet's processing,
\* temp_transform_table cannot be queried in the store.
C7_AliasReleased ==
    pc \notin {"query", "finally"} => ~Queryable(views, tables, temp_table)

\* _add_columns_from_sql had registered the alias and raised because a join
\* query failed.
C7_Witness ==
    /\ registered
    /\ pc = "done"
    /\ failed_in = "transform"
    /\ outcome = "CatalogException"
    /\ ~Queryable(views, tables, temp_table)

\* C8: a failure in extraction or in a transform operator aborts the run at
\* once and the failing sheet is never loaded: when _extract or a transformer
\* raised for sheet i, the exception has left run(), _load was not called for
\* sheet i, the tables are as they were when the sheet's extract began, and no
\* call was made for a later sheet.
C8_FailureAborts ==
    failed_in \in {"extract", "transform"} =>
        /\ pc = "done"
        /\ outcome \notin {"running", "completed"}
        /\ <<"load", sheet>> \notin Range(events)
        /\ tables = at_sheet_start
        /\ \A k \in 1..Len(events) : events[k][2] <= sheet

\* The second sheet's datatype coercion raised after the first sheet was loaded.
C8_Witness ==
    /\ failed_in = "transform"
    /\ outcome = "ValueError"
    /\ sheet = 2
    /\ <<"load", 1>> \in Range(events)
    /\ Len(config) = 2

\* C9: fail-closed on empty extraction: a sheet whose extracted frame has zero
\* rows is never loaded.
C9_EmptyNeverLoaded ==
    (events # <<>> /\ Last(events)[1] = "load") => Len(extracted.rows) > 0

\* C10: in every row of the country lookup table, geographic_europe is true
\* exactly when the country is listed in Geographic_Europe or EU_member is true,
\* so no row has EU_member true and geographic_europe false.
C10_Cell(row, name) == row[ColIndex(tables[LookupName], <<name>>)]

C10_GeoEurope ==
    LookupName \in DOMAIN tables =>
        \A r \in 1..Len(tables[LookupName].rows) :
            LET row == tables[LookupName].rows[r]
                country == C10_Cell(row, "country_name")[2]
                eu == C10_Cell(row, "EU_member") = <<"bool", "True">>
                geo == C10_Cell(row, "geographic_europe") = <<"bool", "True">>
            IN  /\ geo <=> (country \in country_categories.members["Geographic_Europe"]
                            \/ eu)
                /\ ~(eu /\ ~geo)

\* The table was built from a taxonomy with an EU member that is not listed in
\* Geographic_Europe.
C10_Witness ==
    /\ LookupName \in DOMAIN tables
    /\ \E r \in 1..Len(tables[LookupName].rows) :
          LET row == tables[LookupName].rows[r]
          IN  /\ C10_Cell(row, "EU_member") = <<"bool", "True">>
              /\ C10_Cell(row, "geographic_europe") = <<"bool", "True">>
              /\ C10_Cell(row, "country_name")[2]
                     \notin country_categories.members["Geographic_Europe"]

\* C11: the country lookup table has exactly one row per distinct country
\* name occurring in a category other than country_codes (a name occurring
\* only in country_codes gets no row), the rows are in ascending alphabetical
\* order of country_name, and country_id is the row's 1-based position.
C11_Names ==
    [r \in 1..Len(tables[LookupName].rows) |->
        C10_Cell(tables[LookupName].rows[r], "country_name")[2]]

C11_Listed ==
    UNION {country_categories.members[k] : k \in Range(country_categories.cats)}

C11_OneRowPerCountry ==
    LookupName \in DOMAIN tables =>
        /\ Range(C11_Names) = C11_Listed
        /\ Len(C11_Names) = Cardinality(C11_Listed)
        /\ \A r \in 1..(Len(C11_Names) - 1) :
              IndexOf(CountryUniverse, C11_Names[r])
                  < IndexOf(CountryUniverse, C11_Names[r + 1])
        /\ \A r \in 1..Len(C11_Names) :
              C10_Cell(tables[LookupName].rows[r], "country_id") = <<"int", IntStr(r)>>

\* The table holds at least two countries named by two different categories,
\* and country_codes names a country that no category lists.
C11_Witness ==
    /\ LookupName \in DOMAIN tables
    /\ Len(tables[LookupName].rows) >= 2
    /\ \E k1, k2 \in Range(country_categories.cats) :
          k1 # k2 /\ country_categories.members[k1] \ country_categories.members[k2] # {}
                  /\ country_categories.members[k2] \ country_categories.members[k1] # {}
    /\ DOMAIN country_categories.codes \ C11_Listed # {}

\* C12: when the body of a track_step scope raises an exception, the step's
\* record gets status failed and an error field holding the exception's
\* message, and the same exception reaches the caller of the scope; when the
\* body finishes normally the record gets status completed and no error field.
C12_Exit ==
    mpc = "finally" =>
        LET record == Last(execution_log'.steps)
        IN  /\ raising' = raising
            /\ IF raising = NoException
               THEN /\ mpc' = "body"
                    /\ record["status"] = "completed"
                    /\ "error" \notin DOMAIN record
               ELSE /\ mpc' = "raised"
                    /\ IsException(raising) =>
                          /\ record["status"] = "failed"
                          /\ "error" \in DOMAIN record
                          /\ record["error"] = raising.msg

C13_Logged ==
    mpc = "raised" =>
        /\ execution_log.steps # <<>>
        /\ LET record == Last(execution_log.steps)
           IN  /\ record["step_name"] = left.step_data["step_name"]
               /\ record["start_time"] = left.step_data["start_time"]
               /\ {"end_time", "duration_seconds"} \subseteq DOMAIN record
               /\ IsException(raising) =>
                     record["status"] = "failed" /\ "error" \in DOMAIN record

C13_OneRecordPerExit ==
    /\ Len(execution_log'.steps) =
          Len(execution_log.steps) + (IF mpc = "finally" THEN 1 ELSE 0)
    /\ Len(scopes') + Len(execution_log'.steps) >= Len(scopes) + Len(execution_log.steps)

C14_With(status) ==
    Cardinality({i \in 1..Len(execution_log.steps) :
                    execution_log.steps[i]["status"] = status})

C14_SummaryCounts ==
    LET summary == get_execution_summary(execution_log)
    IN  /\ summary.total_steps = Len(execution_log.steps)
        /\ summary.failed_steps = C14_With("failed")
        /\ summary.successful_steps = C14_With("completed")
        /\ summary.total_steps = summary.successful_steps + summary.failed_steps

\* C15: get(k) returns a stored value only if the current time is not past the
\* entry's expires_at; a get(k) on an entry whose expiry has passed returns
\* missing and removes the entry, so total_entries of get_stats is one lower
\* after the lookup; a value set with ttl=1 is returned by a get made
\* immediately and is missing for a get made more than 1 second later.
C15_Ran(t, name) == AtBody(t, name) /\ thread'[t] # thread[t]

C15_Got(t) == IF thread'[t].pc = "func" THEN None ELSE thread'[t].result.value

C15_GetStep(t) ==
    C15_Ran(t, "get") =>
        LET key == thread[t].op.key
            held == key \in DOMAIN cache
        IN  /\ C15_Got(t) # None =>
                  held /\ now <= cache[key].expires_at /\ C15_Got(t) = cache[key].data
            /\ (held /\ now <= cache[key].expires_at) => C15_Got(t) = cache[key].data
            /\ (held /\ now > cache[key].expires_at) =>
                  /\ C15_Got(t) = None
                  /\ key \notin DOMAIN cache'
                  /\ get_stats(cache', now).total_entries
                         = get_stats(cache, now).total_entries - 1
            /\ ~held => cache' = cache

C15_SetStep(t) ==
    (C15_Ran(t, "set") /\ thread[t].op.ttl = <<1>>) =>
        LET key == thread[t].op.key
        IN  /\ get(cache', key, now).value = thread[t].op.data
            /\ \A later \in (now + 2)..(MaxTime + 2) : get(cache', key, later).value = None

C15_Expiry == [][\A t \in DOMAIN thread : C15_GetStep(t) /\ C15_SetStep(t)]_vars

\* A get has found an entry past its expiry, returned missing and removed it.
C15_Witness ==
    /\ evicted.get > 0
    /\ \E t \in DOMAIN thread :
          /\ thread[t].pc = "idle" /\ thread[t].op.name = "get"
          /\ thread[t].result = Returned(None)
          /\ thread[t].op.key \notin DOMAIN cache

\* C16: set(k, v, ttl) stores v under k with absolute expiry equal to the time
\* of the call plus the caller's ttl whenever the caller supplies a ttl
\* (including 0), and plus default_ttl only when no ttl is supplied; a set on an
\* existing key replaces value, creation time and expiry of that entry.
C16_SetStep(t) ==
    C15_Ran(t, "set") =>
        LET cache_op == thread[t].op
            ttl == IF cache_op.ttl = NoTtl THEN default_ttl ELSE cache_op.ttl[1]
        IN  /\ cache_op.key \in DOMAIN cache'
            /\ cache'[cache_op.key].data = cache_op.data
            /\ cache'[cache_op.key].created_at = now
            /\ cache'[cache_op.key].expires_at = now + ttl

C16_ExpiryFromTtl == [][\A t \in DOMAIN thread : C16_SetStep(t)]_vars

\* C17: after invalidate(k), get(k) returns missing until the next set(k),
\* every other key's entry is unchanged, and invalidating an absent key is a
\* no-op that raises nothing; after clear() the cache holds no entries and get
\* returns missing for every key.
C17_InvalidateStep(t) ==
    C15_Ran(t, "invalidate") =>
        LET key == thread[t].op.key
        IN  /\ key \notin DOMAIN cache'
            /\ get(cache', key, now).value = None
            /\ DOMAIN cache' = DOMAIN cache \ {key}
            /\ \A k \in DOMAIN cache' : cache'[k] = cache[k]
            /\ key \notin DOMAIN cache => cache' = cache
            /\ thread'[t].result = Returned(None)

C17_ClearStep(t) ==
    C15_Ran(t, "clear") =>
        /\ DOMAIN cache' = {}
        /\ \A k \in Keys : get(cache', k, now).value = None

C17_MissingUntilSet ==
    \A k \in Keys :
        (k \notin DOMAIN cache /\ k \in DOMAIN cache') =>
            \E t \in DOMAIN thread : C15_Ran(t, "set") /\ thread[t].op.key = k

C17_Invalidation ==
    [][/\ \A t \in DOMAIN thread : C17_InvalidateStep(t) /\ C17_ClearStep(t)
       /\ C17_MissingUntilSet]_vars

\* invalidate has removed the entry of one key while another key holds one.
C17_Witness ==
    /\ evicted.invalidate > 0
    /\ \E t \in DOMAIN thread :
          /\ thread[t].pc = "idle" /\ thread[t].op.name = "invalidate"
          /\ thread[t].op.key \notin DOMAIN cache
          /\ DOMAIN cache # {}

\* C18: when the cache holds an unexpired entry for the wrapper's key, a call
\* returns that cached value and does not invoke the producer; otherwise it
\* invokes the producer once, stores the produced value under the key with the
\* configured ttl and returns it, so that an immediately following call is
\* served from the cache without invoking the producer.
C18_Lookup(t) ==
    (C15_Ran(t, "get") /\ thread[t].w.stage = "get") =>
        LET key == thread[t].w.cache_key
        IN  IF key \in DOMAIN cache /\ now <= cache[key].expires_at
            THEN /\ thread'[t].w.stage = "return cached_data"
                 /\ thread'[t].result = Returned(cache[key].data)
            ELSE thread'[t].pc = "func"

C18_Store(t) ==
    (C15_Ran(t, "set") /\ thread[t].w.stage = "set") =>
        LET w == thread[t].w
            ttl == IF w.ttl = NoTtl THEN default_ttl ELSE w.ttl[1]
        IN  /\ cache'[w.cache_key].data = w.data
            /\ cache'[w.cache_key].expires_at = now + ttl
            /\ thread'[t].result = Returned(w.data)
            /\ get(cache', w.cache_key, now).value # None

C18_CacheAside == [][\A t \in DOMAIN thread : C18_Lookup(t) /\ C18_Store(t)]_vars

\* C19: when the producer raises on a miss, the wrapper returns the configured
\* placeholder if one was configured and otherwise propagates the exception;
\* in both cases nothing is stored under the key (the placeholder is not
\* cached), so the next call invokes the producer again.
C19_Failed(t) ==
    /\ thread[t].pc = "func"
    /\ thread'[t].w.stage \in {"return loading_placeholder", "raise e"}

C19_ErrorStep(t) ==
    C19_Failed(t) =>
        LET w == thread[t].w
        IN  /\ IF w.loading_placeholder # None
               THEN thread'[t].result = Returned(w.loading_placeholder)
               ELSE thread'[t].result.kind = "raise"
            /\ cache' = cache
            /\ get(cache', w.cache_key, now).value = None

C20_Serialized ==
    /\ Cardinality({t \in DOMAIN thread : thread[t].pc = "locked"}) <= 1
    /\ \A t \in DOMAIN thread : thread[t].pc = "locked" <=> lock = t

C20_GetBlocked(t, other) ==
    /\ thread[t].pc = "acquire" /\ thread[t].op.name = "get"
    /\ lock = other
    /\ thread[other].op.name \in {"get", "set", "invalidate"}
    /\ thread[other].op.key # thread[t].op.key

C20_UnrelatedGetNeverBlocked ==
    /\ C20_Serialized
    /\ \A t, other \in DOMAIN thread : ~C20_GetBlocked(t, other)

\* C21: the validation log is append-only.  Every step of the validator keeps
\* the log as a prefix of the log after it; a check that returns appends exactly
\* one entry, at the end, carrying its step name and the status passed; every
\* other step leaves the log as it is; and a report that
\* save_validation_report writes carries the log's length as
\* total_validation_steps and the entries in the order the checks returned.
C21_StepName(call) ==
    CASE call = "validate_source_file" -> "source_validation"
      [] call = "validate_config_integrity" -> "config_validation"
      [] call = "validate_extracted_data" -> "data_extraction_validation"
      [] OTHER -> "database_validation"

C21_Returned == passed' # passed

C21_Saved == checked'.call = "save_validation_report" /\ checked'.raised = NoRaise

C21_Step ==
    /\ IsPrefix(validation_log, validation_log')
    /\ C21_Returned =>
          /\ Len(validation_log') = Len(validation_log) + 1
          /\ Last(validation_log')["step"] = C21_StepName(checked'.call)
          /\ Last(validation_log')["status"] = "passed"
          /\ Last(passed') = checked'.call
    /\ ~C21_Returned => validation_log' = validation_log
    /\ C21_Saved =>
          /\ report'.total_validation_steps = Len(validation_log)
          /\ Len(report'.validation_log) = Len(passed)
          /\ \A i \in 1..Len(passed) :
                /\ report'.validation_log[i] = validation_log[i]
                /\ report'.validation_log[i]["step"] = C21_StepName(passed[i])

C21_AppendOnly == [][C21_Step]_vars

\* A report of two checks of different kinds was saved, and a later check has
\* returned since.
C21_Witness ==
    /\ report.total_validation_steps >= 2
    /\ report.validation_log[1]["step"] # report.validation_log[2]["step"]
    /\ Len(validation_log) > report.total_validation_steps

\* C22: header composition.  While a sheet is being processed, the frame
\* _extract returned for it has, for each column, the header made of the
\* column's first h cells, missing cells read as empty strings, joined with
\* single spaces, every run of whitespace collapsed to one space and the ends
\* trimmed; its rows are the raw rows after the h header rows, in order from
\* position 0.  Header rows ["Country", ""] and ["", "Jan 2022"] give the
\* headers "Country" and "Jan 2022".
C22_Header(cells) ==
    str_strip(sub_whitespace(str_join([k \in 1..Len(cells) |-> CellText(cells[k])]), " "),
              " ")

C22_Country == <<"C", "o", "u", "n", "t", "r", "y">>
C22_Jan2022 == <<"J", "a", "n", " ", "2", "0", "2", "2">>

C22_Example ==
    \A regex \in BOOLEAN :
        /\ compose_header(<<Str(C22_Country), Null>>, regex) = C22_Country
        /\ compose_header(<<Null, Str(C22_Jan2022)>>, regex) = C22_Jan2022
        /\ compose_header(<<Str(C22_Country), Str(<<>>)>>, regex) = C22_Country

C22_HeaderComposition ==
    /\ C22_Example
    /\ pc \in {"transform", "query", "finally", "load"} =>
          LET ec == config[sheet].extract
              raw == read_excel(ec)
              h == ec.number_header_rows
          IN  /\ Len(extracted.columns) = ec.column_range[2] - ec.column_range[1] + 1
              /\ \A c \in 1..Len(extracted.columns) :
                    extracted.columns[c] = C22_Header([k \in 1..h |-> raw[k][c]])
              /\ extracted.rows = SubSeq(raw, h + 1, Len(raw))

\* C23: forward fill.  When _apply_forward_fill runs with a column designated,
\* every missing cell of that column takes the value of the nearest non-missing
\* cell above it, a cell that is not missing and a missing cell with no
\* non-missing cell above it stay as they are, and the other columns, the
\* column names and the number of rows stay as they are; the column
\* [1, None, None, 2, None] becomes [1, 1, 1, 2, 2].
C23_Fills ==
    /\ pc = "transform"
    /\ transformers[op] = "FORWARD_FILL"
    /\ Truthy(transform_config["forward_fill_column"])

C23_Example == <<<<"int", "1">>, Null, Null, <<"int", "2">>, Null>>

C23_Filled == <<<<"int", "1">>, <<"int", "1">>, <<"int", "1">>, <<"int", "2">>, <<"int", "2">>>>

C23_Above(df, c, r) == {q \in 1..(r - 1) : ~IsNull(df.rows[q][c])}

C23_Nearest(df, c, r) == CHOOSE q \in C23_Above(df, c, r) : \A p \in C23_Above(df, c, r) : p <= q

C23_Step ==
    C23_Fills =>
        LET column == FillColumn(transform_config["forward_fill_column"])
            c == ColIndex(data, column)
        IN  /\ outcome' = "running"
            /\ data'.columns = data.columns
            /\ Len(data'.rows) = Len(data.rows)
            /\ \A r \in 1..Len(data.rows) : \A k \in 1..Len(data.columns) :
                  data'.rows[r][k] =
                      IF k = c /\ IsNull(data.rows[r][c]) /\ C23_Above(data, c, r) # {}
                      THEN data.rows[C23_Nearest(data, c, r)][c]
                      ELSE data.rows[r][k]
            /\ Column(data, column) = C23_Example => Column(data', column) = C23_Filled

C23_ForwardFill == [][C23_Step]_vars

\* _apply_forward_fill has filled the column [1, None, None, 2, None].
C23_Witness ==
    /\ pc = "transform" /\ op = 3
    /\ Truthy(transform_config["forward_fill_column"])
    /\ Column(extracted, NameTy) = C23_Example
    /\ Column(data, NameTy) = C23_Filled
    /\ Column(data, NameV) = Column(extracted, NameV)

\* C24: reshape round trip.  When _reshape_data melts a wide table whose id
\* columns identify its rows uniquely, the long result has one row for each
\* pair of an input row and a value column, and pivoting it on the id columns,
\* the variable column and the value column gives the wide table back: the
\* same set of columns and, for every row and column, the same value.
C24_Spec == ReshapeSpec(transform_config["reshape"])

C24_Melts ==
    /\ pc = "transform"
    /\ transformers[op] = "MELT"
    /\ Truthy(transform_config["reshape"])
    /\ C24_Spec.type = "melt"

C24_IdOf(df, r) ==
    [k \in 1..Len(C24_Spec.id_vars) |-> df.rows[r][ColIndex(df, C24_Spec.id_vars[k])]]

C24_UniqueIds(df) ==
    \A r, q \in 1..Len(df.rows) : r # q => C24_IdOf(df, r) # C24_IdOf(df, q)

\* DataFrame.pivot(index=id_vars, columns=var_name, values=value_name) of the
\* long table, the index reset: its columns, its index, and the cell at an id
\* and a column, missing where the long table has no row for the pair.  The
\* order pandas gives rows and columns is left out.
C24_PivotColumns(long) ==
    Range(C24_Spec.id_vars)
    \cup {Payload(long.rows[r][ColIndex(long, C24_Spec.var_name)]) : r \in 1..Len(long.rows)}

C24_PivotIndex(long) == {C24_IdOf(long, r) : r \in 1..Len(long.rows)}

C24_PivotCell(long, id, name) ==
    IF name \in Range(C24_Spec.id_vars) THEN id[IndexOf(C24_Spec.id_vars, name)]
    ELSE LET hits == {r \in 1..Len(long.rows) :
                         /\ C24_IdOf(long, r) = id
                         /\ long.rows[r][ColIndex(long, C24_Spec.var_name)] = Str(name)}
         IN  IF hits = {} THEN Null
             ELSE long.rows[CHOOSE r \in hits : TRUE][ColIndex(long, C24_Spec.value_name)]

C24_Reconstructs(wide, long) ==
    /\ C24_PivotColumns(long) = Range(wide.columns)
    /\ C24_PivotIndex(long) = {C24_IdOf(wide, r) : r \in 1..Len(wide.rows)}
    /\ \A r \in 1..Len(wide.rows) : \A name \in Range(wide.columns) :
          C24_PivotCell(long, C24_IdOf(wide, r), name) = wide.rows[r][ColIndex(wide, name)]

C24_OneRowPerPair(wide, long) ==
    Len(long.rows) = Len(wide.rows) * Len(C24_Spec.value_vars)

C24_RoundTrip ==
    [][(C24_Melts /\ C24_UniqueIds(data))
          => C24_OneRowPerPair(data, data') /\ C24_Reconstructs(data, data')]_vars

\* C24, amended: the round trip holds for a wide table that has at least one
\* row and no column besides the configured id and value columns; the long
\* result has one row per pair of input row and value column for every table.
C24_Covered(df) ==
    /\ df.rows # <<>>
    /\ Range(df.columns) = Range(C24_Spec.id_vars) \cup Range(C24_Spec.value_vars)

C24_RoundTripOfListedColumns ==
    [][C24_Melts =>
          /\ C24_OneRowPerPair(data, data')
          /\ (C24_UniqueIds(data) /\ C24_Covered(data)) => C24_Reconstructs(data, data')]_vars

\* A table of three rows with distinct ids, one of them missing, was melted on
\* all its columns.
C24_Witness ==
    /\ pc = "transform" /\ op = 9
    /\ C24_Spec.type = "melt"
    /\ Truthy(transform_config["reshape"])
    /\ Len(extracted.rows) = 3
    /\ C24_UniqueIds(extracted)
    /\ C24_Covered(extracted)
    /\ Len(data.rows) = 6
    /\ C24_Reconstructs(extracted, data)

\* C25: with several join queries configured, _add_columns_from_sql registers
\* the alias once, with the frame it was handed, and no turn of the loop
\* registers it again: every query reads the frame the operator was handed, not
\* the result of the query before it, and the operator returns the result of
\* the last query only.
C25_Queries == JoinQueries(transform_config["add_columns"])

C25_Registers ==
    (pc = "transform" /\ transformers[op] = "ADD_COLUMNS" /\ pc' = "query")
        => /\ views'[temp_table] = data
           /\ data' = data

C25_Turn ==
    (pc = "query" /\ pc' \in {"query", "finally"})
        => /\ views' = views
           /\ pending' = "none" =>
                 data' = execute_query(C25_Queries[query],
                                       register(views, temp_table, views[temp_table]),
                                       tables).data

C25_Returns == pc = "finally" => data' = data

\* While the loop runs and when it has ended, the frame in flight is the
\* operator's input, or the input with the one column the last query run adds.
C25_LastOnly ==
    (pc \in {"query", "finally"} /\ pending = "none")
        => LET input == views[temp_table]
               done == IF pc = "finally" THEN query ELSE query - 1
           IN  IF done = 0 THEN data = input
               ELSE data = execute_query(C25_Queries[done],
                                         register(EmptySpace, temp_table, input),
                                         tables).data

C25_AliasRegisteredOnce ==
    C25_LastOnly /\ [][C25_Registers /\ C25_Turn /\ C25_Returns /\ C25_LastOnly']_vars

\* The operator has run two queries and returned: the frame has the input's
\* columns and the column of the second query, not that of the first.
C25_Witness ==
    /\ pc = "load"
    /\ Len(C25_Queries) = 2
    /\ Truthy(transform_config["add_columns"])
    /\ data.columns = Append(extracted.columns, <<"f">>)
    /\ <<"n">> \notin Range(data.columns)

\* C26: no rollback.  When run() has been left by an exception raised for sheet
\* i (in its extract, its transform or its load), the tables of the store are
\* those the store held before the run, the country lookup table, and one
\* table for each flagged sheet before i in configuration order, holding that
\* sheet's whole transformed frame; nothing else, so no table made by this run
\* for sheet i or a later sheet.
C26_Lookup == create_country_lookup(country_categories).data

C26_Loaded(j) ==
    C5_Chain(extract(config[j].extract, pandas_regex).data,
             TransformationConfig(config[j].transform),
             register(EmptySpace, LookupName, C26_Lookup), EmptySpace).data

RECURSIVE C26_After(_, _)
C26_After(before, j) ==
    IF j = 0 THEN Put(before, LookupName, C26_Lookup)
    ELSE IF flagged(config[j])
         THEN Put(C26_After(before, j - 1), config[j].load.name, C26_Loaded(j))
         ELSE C26_After(before, j - 1)

C26_Preceding == {j \in 1..(sheet - 1) : flagged(config[j])}

C26_AbortedAtSheet == pc = "done" /\ failed_in \in {"extract", "transform", "load"}

C26_NoRollback ==
    C26_AbortedAtSheet =>
        \E before \in InitialStores :
            /\ LookupName \notin DOMAIN before
            /\ \A j \in C26_Preceding :
                  /\ config[j].load.name \notin DOMAIN before
                  /\ \A k \in C26_Preceding : k # j => config[k].load.name # config[j].load.name
            /\ tables = C26_After(before, sheet - 1)
            /\ DOMAIN tables =
                  DOMAIN before \cup {LookupName}
                  \cup {config[j].load.name : j \in C26_Preceding}

\* The load of the second sheet raised after the first sheet was loaded under
\* the same name: the first sheet's table is in the store, whole.
C26_Witness ==
    /\ C26_AbortedAtSheet
    /\ failed_in = "load"
    /\ sheet = 2
    /\ flagged(config[1])
    /\ config[1].load.name = config[2].load.name
    /\ tables[config[1].load.name] = C26_Loaded(1)
    /\ Len(C26_Loaded(1).rows) > 0

\* C27: the wrapper holds no lock across its lookup, its call of the producer
\* and its store.  A thread holds the lock only inside a DataCache method,
\* never while it runs the producer or waits to store; the value a wrapper
\* stores and returns is the value its own call of the producer returned; and
\* the store leaves exactly one entry for the key, holding that value, so that
\* after two concurrent calls the entry is that of the set that ran last.
C27_NoLockAcrossSteps ==
    \A t \in DOMAIN thread :
        /\ lock = t => thread[t].pc = "locked"
        /\ thread[t].pc = "func" => lock # t

C27_Produces(t) ==
    (thread[t].pc = "func" /\ thread'[t].w.stage = "set")
        => /\ thread'[t].op.name = "set"
           /\ thread'[t].op.key = thread[t].w.cache_key
           /\ thread'[t].op.data = thread'[t].w.data
           /\ cache' = cache

C27_Stores(t) ==
    (C15_Ran(t, "set") /\ thread[t].w.stage = "set")
        => LET key == thread[t].w.cache_key
           IN  /\ thread'[t].result.kind = "return"
               /\ thread'[t].result.value = thread[t].w.data
               /\ thread[t].op.data = thread[t].w.data
               /\ DOMAIN cache' = DOMAIN cache \cup {key}
               /\ cache'[key].data = thread[t].w.data
               /\ \A k \in DOMAIN cache \ {key} : cache'[k] = cache[k]

C27_Step == \A t \in DOMAIN thread : C27_Produces(t) /\ C27_Stores(t)

C27_LastSetWins == C27_NoLockAcrossSteps /\ [][C27_Step /\ C27_NoLockAcrossSteps']_vars

\* Two threads called the wrapper of one key, and nothing else was called and
\* no time passed: both ran the producer (the second lookup came before the
\* first store, or it had found the value), each returned its own value, and
\* the entry holds the value of the set that ran last.
C27_Witness ==
    /\ calls = 2 /\ now = 0
    /\ thread["t1"].w.stage = "return data"
    /\ thread["t1"].result.value = "df1"
    /\ thread["t2"].w.stage = "return data"
    /\ thread["t2"].result.value = None
    /\ DOMAIN cache = {"k1"}
    /\ cache["k1"].data = None

\* C28: every step record in the execution log has a final status: whichever
\* way a track_step scope was left (its body returned, raised an exception
\* deriving from Exception, or raised an interrupt or exit signal that does
\* not), the record appended for it has the status completed or failed, never
\* running, and carries end_time and duration_seconds.
C28_FinalStatus ==
    \A i \in 1..Len(execution_log.steps) :
        LET record == execution_log.steps[i]
        IN  /\ record["status"] \in {"completed", "failed"}
            /\ {"end_time", "duration_seconds"} \subseteq DOMAIN record

\* C29: a check that raises leaves the validation log as it was.  Whenever
\* validate_source_file, validate_config_integrity, validate_extracted_data or
\* validate_database_integrity raises (the file is missing, the workbook or the
\* configuration cannot be read, the table has no rows, the database is
\* missing), no entry is appended; the log has one entry for each check that
\* returned and none for a check that raised, and every entry has the status
\* passed.
C29_Checks ==
    {"validate_source_file", "validate_config_integrity", "validate_extracted_data",
     "validate_database_integrity"}

C29_Raises == checked'.call \in C29_Checks /\ checked'.raised # NoRaise

C29_PassedOnly ==
    /\ Len(validation_log) = Len(passed)
    /\ \A i \in 1..Len(validation_log) : validation_log[i]["status"] = "passed"

C29_Step == C29_Raises => (validation_log' = validation_log /\ passed' = passed)

C29_FailureLogsNothing == C29_PassedOnly /\ [][C29_Step /\ C29_PassedOnly']_vars

\* validate_extracted_data raised for a table without rows after two checks
\* had passed.
C29_Witness ==
    /\ checked.call = "validate_extracted_data"
    /\ checked.raised.cls = "DataValidationError"
    /\ Len(validation_log) = 2
    /\ C29_PassedOnly

\* C30: a producer result of None is never served from the cache.  A wrapper
\* whose lookup finds an entry holding None, expired or not, calls the
\* producer, as it does when the key is missing; no wrapper returns None by its
\* return cached_data statement; and a producer that returns None has its
\* result stored and returned, whatever the ttl.
C30_LooksUp(t) == C15_Ran(t, "get") /\ thread[t].w.stage = "get"

C30_Lookup(t) ==
    LET key == thread[t].w.cache_key
    IN  (C30_LooksUp(t) /\ (key \notin DOMAIN cache \/ cache[key].data = None))
            => /\ thread'[t].pc = "func"
               /\ thread'[t].result = NoResult
               /\ lock' = "free"

C30_StoresNone(t) ==
    (C15_Ran(t, "set") /\ thread[t].w.stage = "set" /\ thread[t].w.data = None)
        => /\ cache'[thread[t].w.cache_key].data = None
           /\ thread'[t].w.stage = "return data"

C30_NeverServed ==
    \A t \in DOMAIN thread :
        thread[t].w.stage = "return cached_data" => thread[t].result.value # None

C30_NoneIsAMiss ==
    C30_NeverServed
    /\ [][(\A t \in DOMAIN thread : C30_Lookup(t) /\ C30_StoresNone(t))
             /\ C30_NeverServed']_vars

\* The wrapper's lookup found the None an earlier call had stored, not expired,
\* and the wrapper is about to call the producer again.
C30_Witness ==
    /\ thread[Caller].pc = "func"
    /\ thread[Caller].w.cache_key \in DOMAIN cache
    /\ cache[thread[Caller].w.cache_key].data = None
    /\ ~IsExpired(cache[thread[Caller].w.cache_key], now)
    /\ cache[thread[Caller].w.cache_key].last_accessed = now

====
